---- MODULE Spec2Model ----
(***************************************************************************)
(* Model of the Linked-Data graph construction layer of                    *)
(* ontology/geo_lod_utils.py and of the orchestrator main.py (EPICA /      *)
(* SISAL FAIRification).                                                   *)
(*                                                                         *)
(* Strings are sequences of one-character strings, so that strip(),        *)
(* startswith(), count() and number formatting are computed character by   *)
(* character.  A float is a sign and a magnitude in units of 2^-FracBits   *)
(* (every such value is an exactly representable binary float).  A graph   *)
(* is a set of triples <<s, p, o>> of nodes; a node is a URI or a literal. *)
(***************************************************************************)
EXTENDS Integers, Sequences, FiniteSets, TLC

VARIABLES
    pt,     \* one call of wkt_point: its arguments and its result
    crs,    \* repeated application of _ensure_crs: the input and the results
    g,      \* the rdflib graph under construction: a set of triples
    log,    \* the calls made on g so far, oldest first
    pair,   \* one site built twice, from coordinates and from a WKT string
    fac,    \* the module import and one call of get_graph
    fs,     \* the file system: the directories and the files with their content
    ret,    \* what the file-writing calls made so far have returned
    wr,     \* two pipelines inside write_geo_lod_core at the same time
    orch    \* one run of the orchestrator main.py

vars == <<pt, crs, g, log, pair, fac, fs, ret, wr, orch>>

\* the variables of the file-writing and graph-factory parts
ext == <<pair, fac, fs, ret, wr, orch>>

----------------------------------------------------------------------------
(* Bounds of the model *)

\* floats are multiples of 2^-FracBits
FracBits == 3
\* longitudes |lon| <= MaxLonMag / 2^FracBits
MaxLonMag == 80
\* latitudes |lat| <= MaxLatMag / 2^FracBits
MaxLatMag == 9
\* precisions 0..MaxPrec, and the default
MaxPrec == 3
\* WKT input strings are concatenations of at most MaxFrags fragments
MaxFrags == 4
\* _ensure_crs is applied at most MaxApply times in a row
MaxApply == 3
\* WKT strings passed to add_geo_site_from_wkt on a fresh graph are
\* concatenations of at most MaxWktFrags fragments
MaxWktFrags == 3
\* extra_types lists hold at most MaxExtra type URIs
MaxExtra == 2
\* at most MaxCalls builder calls are made on one graph
MaxCalls == 2
\* member lists passed to add_feature_collection hold at most MaxMembers URIs
MaxMembers == 3
\* a file found in the output directory is up to MaxStale lines shorter or
\* longer than the text written over it
MaxStale == 2
\* at most MaxWrites calls of write_geo_lod_core are made in a row
MaxWrites == 2
\* a writer hands the text to the file in one piece, or in two with the cut
\* at most MaxSplit lines from either end
MaxSplit == 1

----------------------------------------------------------------------------
(* Strings *)

\* str.strip() with no argument removes these
Whitespace == {" ", "\t", "\n", "\r", "\f"}

RECURSIVE lstrip(_)
lstrip(s) ==
    IF s # <<>> /\ Head(s) \in Whitespace THEN lstrip(Tail(s)) ELSE s

RECURSIVE rstrip(_)
rstrip(s) ==
    IF s # <<>> /\ s[Len(s)] \in Whitespace
    THEN rstrip(SubSeq(s, 1, Len(s) - 1))
    ELSE s

strip(s) == rstrip(lstrip(s))

startswith(s, p) == Len(s) >= Len(p) /\ SubSeq(s, 1, Len(p)) = p

\* str.count(p) for a p that cannot overlap itself
count(s, p) ==
    Cardinality({i \in 1..(Len(s) - Len(p) + 1) : SubSeq(s, i, i + Len(p) - 1) = p})

----------------------------------------------------------------------------
(* Namespaces *)

GEOLOD_BASE == "http://w3id.org/geo-lod/"

CRS_WGS84 ==
    << "h", "t", "t", "p", ":", "/", "/", "w", "w", "w", ".", "o", "p", "e",
       "n", "g", "i", "s", ".", "n", "e", "t", "/", "d", "e", "f", "/", "c",
       "r", "s", "/", "E", "P", "S", "G", "/", "0", "/", "4", "3", "2", "6" >>

NS ==
    [ rdf    |-> "http://www.w3.org/1999/02/22-rdf-syntax-ns#",
      rdfs   |-> "http://www.w3.org/2000/01/rdf-schema#",
      owl    |-> "http://www.w3.org/2002/07/owl#",
      xsd    |-> "http://www.w3.org/2001/XMLSchema#",
      geo    |-> "http://www.opengis.net/ont/geosparql#",
      sf     |-> "http://www.opengis.net/ont/sf#",
      crm    |-> "http://www.cidoc-crm.org/cidoc-crm/",
      crmsci |-> "http://www.ics.forth.gr/isl/CRMsci/",
      sosa   |-> "http://www.w3.org/ns/sosa/",
      ssn    |-> "http://www.w3.org/ns/ssn/",
      qudt   |-> "http://qudt.org/schema/qudt/",
      unit   |-> "http://qudt.org/vocab/unit/",
      prov   |-> "http://www.w3.org/ns/prov#",
      dct    |-> "http://purl.org/dc/terms/",
      dcat   |-> "http://www.w3.org/ns/dcat#",
      void   |-> "http://rdfs.org/ns/void#",
      skos   |-> "http://www.w3.org/2004/02/skos/core#",
      geolod |-> GEOLOD_BASE ]

----------------------------------------------------------------------------
(* Number formatting: "{:.<precision>f}".format(x) *)

RECURSIVE Pow(_, _)
Pow(b, n) == IF n = 0 THEN 1 ELSE b * Pow(b, n - 1)

DigitChar(d) == <<"0", "1", "2", "3", "4", "5", "6", "7", "8", "9">>[d + 1]

\* the decimal digits of a natural number, no leading zeros ("0" for 0)
RECURSIVE Digits(_)
Digits(n) ==
    IF n < 10 THEN <<DigitChar(n)>>
    ELSE Append(Digits(n \div 10), DigitChar(n % 10))

\* the decimal digits of n < 10^width, zero-padded on the left to width
RECURSIVE PadDigits(_, _)
PadDigits(n, width) ==
    IF width = 0 THEN <<>>
    ELSE Append(PadDigits(n \div 10, width - 1), DigitChar(n % 10))

\* x * 10^precision rounded to an integer, ties to even: the float is
\* converted exactly and correctly rounded
RoundScaled(x, precision) ==
    LET unit  == Pow(2, FracBits)
        scale == Pow(10, precision)
        ip    == x.mag \div unit
        t     == (x.mag % unit) * scale
        q     == ip * scale + (t \div unit)
        r     == t % unit
    IN  IF 2 * r > unit \/ (2 * r = unit /\ q % 2 = 1) THEN q + 1 ELSE q

format_f(x, precision) ==
    LET scaled == RoundScaled(x, precision)
        scale  == Pow(10, precision)
    IN  (IF x.neg THEN <<"-">> ELSE <<>>)
        \o Digits(scaled \div scale)
        \o (IF precision = 0 THEN <<>>
            ELSE <<".">> \o PadDigits(scaled % scale, precision))

----------------------------------------------------------------------------
(* GeoSPARQL geometry helpers *)

DefaultPrecision == 6

\* a variant with the coordinates in latitude, longitude order
wkt_point_latlon(lon, lat, precision) ==
    <<"<">> \o CRS_WGS84 \o <<">", " ", "P", "O", "I", "N", "T", "(">>
    \o format_f(lat, precision) \o <<" ">> \o format_f(lon, precision) \o <<")">>

wkt_point(lon, lat, precision) ==
    <<"<">> \o CRS_WGS84 \o <<">", " ", "P", "O", "I", "N", "T", "(">>
    \o format_f(lon, precision) \o <<" ">> \o format_f(lat, precision) \o <<")">>

\* a variant that prepends without looking at the string
_ensure_crs_always(wkt) ==
    <<"<">> \o CRS_WGS84 \o <<">", " ">> \o strip(wkt)

\* a variant that looks for "<" anywhere in the string, not at its start
_ensure_crs_contains(wkt) ==
    LET s == strip(wkt)
    IN  IF \A i \in 1..Len(s) : s[i] # "<"
        THEN <<"<">> \o CRS_WGS84 \o <<">", " ">> \o s
        ELSE s

_ensure_crs(wkt) ==
    LET s == strip(wkt)
    IN  IF ~startswith(s, <<"<">>)
        THEN <<"<">> \o CRS_WGS84 \o <<">", " ">> \o s
        ELSE s

----------------------------------------------------------------------------
(* Inputs *)

Floats(maxmag) == [neg : BOOLEAN, mag : 0..maxmag]

\* longitudes and latitudes; 987/8 = 123.375 and 601/8 = 75.125 lie near
\* the Dome C coordinates of the self-test
Lons == Floats(MaxLonMag) \cup [neg : BOOLEAN, mag : {987}]
Lats == Floats(MaxLatMag) \cup [neg : BOOLEAN, mag : {601}]
Precisions == (0..MaxPrec) \cup {DefaultPrecision}

CrsPrefix == <<"<">> \o CRS_WGS84 \o <<">">>

Fragments == {<<" ">>, <<"\n">>, <<"<">>, <<"P">>, CrsPrefix}

RECURSIVE Concats(_)
Concats(n) ==
    IF n = 0 THEN {<<>>}
    ELSE LET shorter == Concats(n - 1)
         IN  shorter \cup {f \o s : f \in Fragments, s \in shorter}

WktStrings == Concats(MaxFrags)

----------------------------------------------------------------------------
(* wkt_point as a one-call machine *)

NoFloat == [neg |-> FALSE, mag |-> 0]
PtIdle == [pc |-> "idle", lon |-> NoFloat, lat |-> NoFloat, precision |-> 0, out |-> <<>>]
CrsIdle == [w |-> <<>>, r |-> <<>>]
PairIdle == [pc |-> "idle", lon |-> NoFloat, lat |-> NoFloat, w |-> <<>>,
             g1 |-> {}, g2 |-> {}]
FacIdle == [pc |-> "idle", installed |-> FALSE, RDF_AVAILABLE |-> FALSE,
            store |-> {}, triples |-> {}, bindings |-> {}, raised |-> "",
            returned |-> FALSE]
\* only the working directory exists and it holds no file
FsIdle == [dirs |-> {<<>>}, files |-> <<>>]
WrIdle == <<>>
\* main.py has not been started
OrchIdle == [pc |-> "idle"]

ExtIdle ==
    /\ pair = PairIdle
    /\ fac = FacIdle
    /\ fs = FsIdle
    /\ ret = <<>>
    /\ wr = WrIdle
    /\ orch = OrchIdle

InitPoint ==
    /\ pt \in [pc : {"start"}, lon : Lons, lat : Lats,
               precision : Precisions, out : {<<>>}]
    /\ crs = CrsIdle
    /\ g = {}
    /\ log = <<>>
    /\ ExtIdle

CallWktPoint ==
    /\ pt.pc = "start"
    /\ pt' = [pt EXCEPT !.pc = "done",
                        !.out = wkt_point(pt.lon, pt.lat, pt.precision)]
    /\ UNCHANGED <<crs, g, log>>
    /\ UNCHANGED ext

NextPoint == CallWktPoint

SpecPoint == InitPoint /\ [][NextPoint]_vars

----------------------------------------------------------------------------
(* _ensure_crs applied repeatedly to one input *)

InitCrs ==
    /\ pt = PtIdle
    /\ crs \in [w : WktStrings, r : {<<>>}]
    /\ g = {}
    /\ log = <<>>
    /\ ExtIdle

CallEnsureCrs ==
    /\ Len(crs.r) < MaxApply
    /\ crs' = [crs EXCEPT !.r = Append(crs.r,
                   _ensure_crs(IF crs.r = <<>> THEN crs.w ELSE crs.r[Len(crs.r)]))]
    /\ UNCHANGED <<pt, g, log>>
    /\ UNCHANGED ext

NextCrs == CallEnsureCrs

SpecCrs == InitCrs /\ [][NextCrs]_vars

----------------------------------------------------------------------------
(* RDF terms and the graph *)

NoDatatype == <<"", "">>

\* Namespace(ns)[local]: the URI ns + local
URIRef(ns, local) ==
    [kind |-> "uri", ns |-> ns, local |-> local,
     lex |-> <<>>, lang |-> "", dt |-> NoDatatype]

\* Literal(lex, lang=..., datatype=...): the lexical form is kept as given
Literal(lex, lang, dt) ==
    [kind |-> "lit", ns |-> "", local |-> "",
     lex |-> lex, lang |-> lang, dt |-> dt]

\* a variant on the GeoSPARQL 1.0 namespace URI, which NS does not hold
GEO_legacy(name) == URIRef("http://www.opengis.net/ont/geosparql/1.0#", name)
GEO(name) == URIRef(NS.geo, name)
SF(name) == URIRef(NS.sf, name)
CRM(name) == URIRef(NS.crm, name)
GEOLOD(name) == URIRef(NS.geolod, name)
RDF_type == URIRef(NS.rdf, "type")
RDFS_label == URIRef(NS.rdfs, "label")
RDFS_member == URIRef(NS.rdfs, "member")

wktLiteral == <<NS.geo, "wktLiteral">>

\* a fresh rdflib Graph holds no triple
get_graph == {}

\* Graph.add: the graph is a set
add(graph, triple) == graph \cup {triple}

\* for t in extra_types: g.add((site_uri, RDF.type, t))
RECURSIVE add_types(_, _, _)
add_types(graph, site_uri, extra_types) ==
    IF extra_types = <<>> THEN graph
    ELSE add_types(add(graph, <<site_uri, RDF_type, Head(extra_types)>>),
                   site_uri, Tail(extra_types))

\* the common body of add_geo_site and add_geo_site_from_wkt
site_pattern(graph, site_uri, geom_uri, label, wkt, extra_types) ==
    LET g1 == add(graph, <<site_uri, RDF_type, GEO("Feature")>>)
        g2 == add(g1, <<site_uri, RDF_type, CRM("E53_Place")>>)
        g3 == add(g2, <<site_uri, RDF_type, CRM("E27_Site")>>)
        g4 == add_types(g3, site_uri, extra_types)
        g5 == add(g4, <<site_uri, RDFS_label, Literal(label, "en", NoDatatype)>>)
        g6 == add(g5, <<site_uri, GEO("hasGeometry"), geom_uri>>)
        g7 == add(g6, <<geom_uri, RDF_type, SF("Point")>>)
    IN  add(g7, <<geom_uri, GEO("asWKT"), Literal(wkt, "", wktLiteral)>>)

\* a variant that also asserts the abstract geo:Geometry type on the geometry
add_geo_site_geometry(graph, site_uri, geom_uri, label, lon, lat, extra_types) ==
    add(site_pattern(graph, site_uri, geom_uri, label,
                     wkt_point(lon, lat, DefaultPrecision), extra_types),
        <<geom_uri, RDF_type, GEO("Geometry")>>)

\* a variant that treats a site already in the graph as an update: it clears
\* what the graph holds about the site and its geometry and rewrites the
\* geometry only
add_geo_site_refresh(graph, site_uri, geom_uri, label, lon, lat, extra_types) ==
    IF \E t \in graph : t[1] = site_uri
    THEN LET kept == {t \in graph : t[1] \notin {site_uri, geom_uri}}
             g7   == add(kept, <<geom_uri, RDF_type, SF("Point")>>)
         IN  add(g7, <<geom_uri, GEO("asWKT"),
                       Literal(wkt_point(lon, lat, DefaultPrecision), "", wktLiteral)>>)
    ELSE site_pattern(graph, site_uri, geom_uri, label,
                      wkt_point(lon, lat, DefaultPrecision), extra_types)

add_geo_site(graph, site_uri, geom_uri, label, lon, lat, extra_types) ==
    site_pattern(graph, site_uri, geom_uri, label,
                 wkt_point(lon, lat, DefaultPrecision), extra_types)

\* a variant that stores the caller's string without the CRS check
add_geo_site_from_wkt_raw(graph, site_uri, geom_uri, label, wkt, extra_types) ==
    site_pattern(graph, site_uri, geom_uri, label, wkt, extra_types)

add_geo_site_from_wkt(graph, site_uri, geom_uri, label, wkt, extra_types) ==
    site_pattern(graph, site_uri, geom_uri, label, _ensure_crs(wkt), extra_types)

RECURSIVE add_members(_, _, _)
add_members(graph, collection_uri, members) ==
    IF members = <<>> THEN graph
    ELSE add_members(add(graph, <<collection_uri, RDFS_member, Head(members)>>),
                     collection_uri, Tail(members))

\* a variant that links the first member only
add_feature_collection_first(graph, collection_uri, label, members) ==
    LET g1 == add(graph, <<collection_uri, RDF_type, GEO("FeatureCollection")>>)
        g2 == add(g1, <<collection_uri, RDFS_label, Literal(label, "en", NoDatatype)>>)
    IN  IF members = <<>> THEN g2
        ELSE add(g2, <<collection_uri, RDFS_member, Head(members)>>)

\* a variant that also declares every member a geo:Feature
add_feature_collection_typed(graph, collection_uri, label, members) ==
    LET g1 == add(graph, <<collection_uri, RDF_type, GEO("FeatureCollection")>>)
        g2 == add(g1, <<collection_uri, RDFS_label, Literal(label, "en", NoDatatype)>>)
    IN  add_members(g2, collection_uri, members)
          \cup {<<members[i], RDF_type, GEO("Feature")>> : i \in 1..Len(members)}

add_feature_collection(graph, collection_uri, label, members) ==
    LET g1 == add(graph, <<collection_uri, RDF_type, GEO("FeatureCollection")>>)
        g2 == add(g1, <<collection_uri, RDFS_label, Literal(label, "en", NoDatatype)>>)
    IN  add_members(g2, collection_uri, members)

----------------------------------------------------------------------------
(* The builder calls a pipeline makes on one graph *)

\* one entry of the call log
Call(op, subject, geom, label, lon, lat, wkt, extra, members) ==
    [op |-> op, subject |-> subject, geom |-> geom, label |-> label,
     lon |-> lon, lat |-> lat, wkt |-> wkt, extra |-> extra, members |-> members]

NoNode == URIRef("", "")

AddGeoSite(site_uri, geom_uri, label, lon, lat, extra_types) ==
    /\ g' = add_geo_site(g, site_uri, geom_uri, label, lon, lat, extra_types)
    /\ log' = Append(log, Call("add_geo_site", site_uri, geom_uri, label,
                               lon, lat, <<>>, extra_types, <<>>))
    /\ UNCHANGED <<pt, crs>>
    /\ UNCHANGED ext

AddGeoSiteFromWkt(site_uri, geom_uri, label, wkt, extra_types) ==
    /\ g' = add_geo_site_from_wkt(g, site_uri, geom_uri, label, wkt, extra_types)
    /\ log' = Append(log, Call("add_geo_site_from_wkt", site_uri, geom_uri, label,
                               NoFloat, NoFloat, wkt, extra_types, <<>>))
    /\ UNCHANGED <<pt, crs>>
    /\ UNCHANGED ext

AddFeatureCollection(collection_uri, label, members) ==
    /\ g' = add_feature_collection(g, collection_uri, label, members)
    /\ log' = Append(log, Call("add_feature_collection", collection_uri, NoNode, label,
                               NoFloat, NoFloat, <<>>, <<>>, members))
    /\ UNCHANGED <<pt, crs>>
    /\ UNCHANGED ext

\* no call has been made and the graph is the one get_graph returned
GraphIdle ==
    /\ pt = PtIdle
    /\ crs = CrsIdle
    /\ g = get_graph
    /\ log = <<>>

InitGraph ==
    /\ GraphIdle
    /\ ExtIdle

\* URIs of the self-test; Cave_site_0001 may be passed as a site and as a
\* collection
SiteUris == {GEOLOD("EpicaDomeC_Site"), GEOLOD("Cave_site_0001")}
GeomUris == {GEOLOD("EpicaDomeC_Geometry"), GEOLOD("Cave_site_0001_Geometry")}
CollectionUris == {GEOLOD("SISAL_Cave_Collection"), GEOLOD("Cave_site_0001")}
Labels == {<<"A">>, <<"B">>}
TypeUris == {GEOLOD("DrillingSite"), GEOLOD("Cave"), GEO("Geometry")}

RECURSIVE SeqsUpTo(_, _)
SeqsUpTo(S, n) ==
    IF n = 0 THEN {<<>>}
    ELSE LET shorter == SeqsUpTo(S, n - 1)
         IN  shorter \cup {<<x>> \o q : x \in S, q \in shorter}

DomeC == [neg |-> FALSE, mag |-> 987]
South == [neg |-> TRUE, mag |-> 601]
North == [neg |-> FALSE, mag |-> 601]

----------------------------------------------------------------------------
(* One call on a freshly created graph, over the wide input sets *)

FreshAddGeoSite ==
    /\ log = <<>>
    /\ \E site_uri \in SiteUris, geom_uri \in GeomUris, label \in Labels,
          lon \in {DomeC, NoFloat}, lat \in {South, North},
          extra_types \in SeqsUpTo(TypeUris, MaxExtra) :
            AddGeoSite(site_uri, geom_uri, label, lon, lat, extra_types)

FreshAddGeoSiteFromWkt ==
    /\ log = <<>>
    /\ \E site_uri \in SiteUris, geom_uri \in GeomUris, label \in Labels,
          wkt \in Concats(MaxWktFrags),
          extra_types \in SeqsUpTo(TypeUris, MaxExtra) :
            AddGeoSiteFromWkt(site_uri, geom_uri, label, wkt, extra_types)

NextFresh == FreshAddGeoSite \/ FreshAddGeoSiteFromWkt

SpecFresh == InitGraph /\ [][NextFresh]_vars

----------------------------------------------------------------------------
(* Any sequence of at most MaxCalls calls on one graph *)

\* caller strings: bare WKT, CRS-prefixed WKT with a trailing newline, WKT
\* behind another angle-bracketed prefix, and WKT with the CRS URI inside
WktSamples ==
    { <<"P">>,
      CrsPrefix \o <<" ", "P", "\n">>,
      <<"<", "P">>,
      <<"P", " ">> \o CrsPrefix }

MemberLists ==
    { <<>>,
      <<GEOLOD("EpicaDomeC_Site"), GEOLOD("Cave_site_0001")>>,
      <<GEOLOD("Cave_site_0001"), GEOLOD("EpicaDomeC_Site")>> }

CallAddGeoSite ==
    /\ Len(log) < MaxCalls
    /\ \E site_uri \in SiteUris, geom_uri \in GeomUris, label \in Labels,
          lat \in {South, North} :
            AddGeoSite(site_uri, geom_uri, label, DomeC, lat, <<>>)

CallAddGeoSiteFromWkt ==
    /\ Len(log) < MaxCalls
    /\ \E site_uri \in SiteUris, geom_uri \in GeomUris, label \in Labels,
          wkt \in WktSamples :
            AddGeoSiteFromWkt(site_uri, geom_uri, label, wkt, <<GEOLOD("Cave")>>)

CallAddFeatureCollection ==
    /\ Len(log) < MaxCalls
    /\ \E collection_uri \in CollectionUris, members \in MemberLists :
            AddFeatureCollection(collection_uri, <<"C">>, members)

Next == CallAddGeoSite \/ CallAddGeoSiteFromWkt \/ CallAddFeatureCollection

Spec == InitGraph /\ [][Next]_vars

----------------------------------------------------------------------------
(* Reading a formatted number back *)

IsDigit(c) == c \in {"0", "1", "2", "3", "4", "5", "6", "7", "8", "9"}

DigitVal(c) == CHOOSE d \in 0..9 : DigitChar(d) = c

RECURSIVE ParseNat(_)
ParseNat(s) ==
    IF s = <<>> THEN 0
    ELSE 10 * ParseNat(SubSeq(s, 1, Len(s) - 1)) + DigitVal(s[Len(s)])

Abs(n) == IF n < 0 THEN -n ELSE n

\* s is x written with exactly p decimal digits: an optional "-", the integer
\* part without superfluous zeros, then (for p > 0) "." and p digits; the
\* number written is the multiple of 10^-p nearest to x (the even one on a tie)
IsFixedOf(s, x, p) ==
    LET neg    == s # <<>> /\ Head(s) = "-"
        u      == IF neg THEN Tail(s) ELSE s
        n      == Len(u)
        dot    == n - p
        intlen == IF p = 0 THEN n ELSE dot - 1
        ds     == IF p = 0 THEN u
                  ELSE SubSeq(u, 1, dot - 1) \o SubSeq(u, dot + 1, n)
        unit   == Pow(2, FracBits)
        diff   == Abs(ParseNat(ds) * unit - x.mag * Pow(10, p))
    IN  /\ neg = x.neg
        /\ intlen >= 1
        /\ p > 0 => u[dot] = "."
        /\ \A i \in 1..Len(ds) : IsDigit(ds[i])
        /\ intlen > 1 => u[1] # "0"
        /\ \/ 2 * diff < unit
           \/ 2 * diff = unit /\ ParseNat(ds) % 2 = 0

PointHead == CrsPrefix \o <<" ", "P", "O", "I", "N", "T", "(">>

\* out is "<CRS> POINT(" + fixed(a, p) + " " + fixed(b, p) + ")"
IsPointOf(out, a, b, p) ==
    LET n   == Len(out)
        h   == Len(PointHead)
        mid == SubSeq(out, h + 1, n - 1)
    IN  /\ n >= h + 4
        /\ SubSeq(out, 1, h) = PointHead
        /\ out[n] = ")"
        /\ \E i \in 2..(Len(mid) - 1) :
              /\ mid[i] = " "
              /\ IsFixedOf(SubSeq(mid, 1, i - 1), a, p)
              /\ IsFixedOf(SubSeq(mid, i + 1, Len(mid)), b, p)

----------------------------------------------------------------------------
(* Claims about wkt_point *)

\* C1: for every lon, lat and precision p the result of wkt_point is the CRS
\* prefix, " POINT(", lon written with p decimal digits, a space, lat written
\* with p decimal digits and ")": longitude first, latitude second.
C1_WktPointFormat ==
    pt.pc = "done" => IsPointOf(pt.out, pt.lon, pt.lat, pt.precision)

\* C1 witness: wkt_point(123.375, -75.125) has returned
\* "<http://www.opengis.net/def/crs/EPSG/0/4326> POINT(123.375000 -75.125000)"
C1_Witness ==
    /\ pt.pc = "done"
    /\ pt.lon = [neg |-> FALSE, mag |-> 987 * Pow(2, FracBits - 3)]
    /\ pt.lat = [neg |-> TRUE, mag |-> 601 * Pow(2, FracBits - 3)]
    /\ pt.precision = DefaultPrecision
    /\ pt.out = CrsPrefix \o
         <<" ", "P", "O", "I", "N", "T", "(", "1", "2", "3", ".", "3", "7", "5",
           "0", "0", "0", " ", "-", "7", "5", ".", "1", "2", "5", "0", "0", "0", ")">>

----------------------------------------------------------------------------
(* Claims about _ensure_crs *)

\* the results of the applications made so far, and the first of them
Applied == Len(crs.r) >= 1
Result == crs.r[1]

\* the first character of w that is not whitespace is "<"
TrimmedStartsWithBracket(w) ==
    \E i \in 1..Len(w) :
        /\ w[i] = "<"
        /\ \A j \in 1..(i - 1) : w[j] \in Whitespace

\* C2 (as claimed): for every w that starts with "<", trailing whitespace
\* included, _ensure_crs returns w unchanged, and a second application
\* returns the same string again.
C2_PrefixedReturnedUnchanged ==
    (Len(crs.r) >= 2 /\ startswith(crs.w, <<"<">>)) =>
        /\ crs.r[1] = crs.w
        /\ crs.r[2] = crs.r[1]

\* C3 (as claimed): for every w that does not start with "<", the result of
\* _ensure_crs starts with the CRS prefix and contains it exactly once.
C3_InjectedExactlyOnce ==
    (Applied /\ ~startswith(crs.w, <<"<">>)) =>
        /\ startswith(Result, CrsPrefix)
        /\ count(Result, CrsPrefix) = 1

\* C3 (amended): for every w whose first non-whitespace character is not "<"
\* (the empty and the all-whitespace string included), the result of
\* _ensure_crs starts with the CRS prefix and contains it exactly once more
\* than w does: exactly once when w does not contain it.
C3_InjectedOnceMore ==
    (Applied /\ ~TrimmedStartsWithBracket(crs.w)) =>
        /\ startswith(Result, CrsPrefix)
        /\ count(Result, CrsPrefix) = 1 + count(crs.w, CrsPrefix)
        /\ count(crs.w, CrsPrefix) = 0 => count(Result, CrsPrefix) = 1

\* C3 witness: _ensure_crs(" P") has returned "<CRS> P"
C3_Witness ==
    /\ Applied
    /\ crs.w = <<" ", "P">>
    /\ Result = CrsPrefix \o <<" ", "P">>

DoublePrefix == CrsPrefix \o <<" ", "<">>

\* C4 (as claimed): for every input w and every n >= 1, the result of n
\* applications of _ensure_crs never begins with the CRS prefix, a space
\* and a second "<".
C4_NeverBeginsDoubled ==
    \A n \in 1..Len(crs.r) : ~startswith(crs.r[n], DoublePrefix)

\* C4 (amended): the result of n >= 1 applications of _ensure_crs begins with
\* the CRS prefix, a space and a second "<" only when the trimmed input
\* already began so; over any number of applications the prefix is prepended
\* at most once (the result holds at most one occurrence more than w).
C4_PrependedAtMostOnce ==
    \A n \in 1..Len(crs.r) :
        /\ startswith(crs.r[n], DoublePrefix) => startswith(lstrip(crs.w), DoublePrefix)
        /\ count(crs.r[n], CrsPrefix) <= count(crs.w, CrsPrefix) + 1

\* C4 witness: _ensure_crs has been applied MaxApply times to "P" and the
\* prefix was prepended by the first application only
C4_Witness ==
    /\ Len(crs.r) = MaxApply
    /\ crs.w = <<"P">>
    /\ \A n \in 1..MaxApply : crs.r[n] = CrsPrefix \o <<" ", "P">>

----------------------------------------------------------------------------
(* Reading the graph *)

\* g.objects(s, p)
Objects(graph, s, p) == {t[3] : t \in {u \in graph : u[1] = s /\ u[2] = p}}

SiteOps == {"add_geo_site", "add_geo_site_from_wkt"}

\* the entities some site links to with geo:hasGeometry, and those sites
GeometryEntities(graph) == {t[3] : t \in {u \in graph : u[2] = GEO("hasGeometry")}}
SiteEntities(graph) == {t[1] : t \in {u \in graph : u[2] = GEO("hasGeometry")}}

\* the triples asserting the abstract geo:Geometry type
GeometryTyped(graph) == {t \in graph : t[2] = RDF_type /\ t[3] = GEO("Geometry")}

\* the triples the claim lists for one site call, the WKT triple aside
ListedTriples(c) ==
    { <<c.subject, RDF_type, GEO("Feature")>>,
      <<c.subject, RDF_type, CRM("E53_Place")>>,
      <<c.subject, RDF_type, CRM("E27_Site")>>,
      <<c.subject, RDFS_label, Literal(c.label, "en", NoDatatype)>>,
      <<c.subject, GEO("hasGeometry"), c.geom>>,
      <<c.geom, RDF_type, SF("Point")>> }
    \cup {<<c.subject, RDF_type, c.extra[i]>> : i \in 1..Len(c.extra)}

\* the graph is ListedTriples(c) and one geo:asWKT triple on the geometry,
\* whose object is a geo:wktLiteral holding the point of c's coordinates
HoldsExactlyTheSite(graph, c) ==
    LET wkts == Objects(graph, c.geom, GEO("asWKT"))
    IN  /\ graph = ListedTriples(c) \cup {<<c.geom, GEO("asWKT"), o>> : o \in wkts}
        /\ Cardinality(wkts) = 1
        /\ \A o \in wkts :
              /\ o.kind = "lit" /\ o.dt = wktLiteral /\ o.lang = ""
              /\ IsPointOf(o.lex, c.lon, c.lat, DefaultPrecision)

----------------------------------------------------------------------------
(* Claims about one call on a fresh graph *)

\* C5 (as claimed): given any WKT string w that already begins with the CRS
\* prefix, add_geo_site_from_wkt stores as the geometry's asWKT literal a
\* value identical to w, in which the CRS prefix occurs exactly once.
C5_PrefixedStoredIdentical ==
    \A i \in 1..Len(log) :
        (log[i].op = "add_geo_site_from_wkt" /\ startswith(log[i].wkt, CrsPrefix)) =>
            \A o \in Objects(g, log[i].geom, GEO("asWKT")) :
                /\ o.lex = log[i].wkt
                /\ count(o.lex, CrsPrefix) = 1

\* C6 (as claimed): after one add_geo_site call on a fresh graph, g holds
\* exactly the three fixed type triples of the site, one type triple per
\* extra type, the English label, the hasGeometry link, the sf:Point type of
\* the geometry and one asWKT literal typed geo:wktLiteral; and g holds no
\* triple asserting the type geo:Geometry.
C6_ExactTriplesNoGeometry ==
    (Len(log) = 1 /\ log[1].op = "add_geo_site") =>
        /\ HoldsExactlyTheSite(g, log[1])
        /\ GeometryTyped(g) = {}

\* C6 (amended): after one add_geo_site call on a fresh graph, g holds exactly
\* the triples listed above and no others; the only triple that can assert
\* the type geo:Geometry is (site type geo:Geometry), and it is there exactly
\* when the caller passed geo:Geometry among extra_types.
C6_ExactTriplesGeometryOnlyFromCaller ==
    (Len(log) = 1 /\ log[1].op = "add_geo_site") =>
        LET c == log[1]
            passed == \E i \in 1..Len(c.extra) : c.extra[i] = GEO("Geometry")
        IN  /\ HoldsExactlyTheSite(g, c)
            /\ GeometryTyped(g) =
                  IF passed THEN {<<c.subject, RDF_type, GEO("Geometry")>>} ELSE {}

\* C6 witness: the self-test's call, one extra type, has left eight triples
C6_Witness ==
    /\ Len(log) = 1
    /\ log[1].op = "add_geo_site"
    /\ log[1].subject = GEOLOD("EpicaDomeC_Site")
    /\ log[1].geom = GEOLOD("EpicaDomeC_Geometry")
    /\ log[1].extra = <<GEOLOD("DrillingSite")>>
    /\ Cardinality(g) = 8
    /\ <<GEOLOD("EpicaDomeC_Site"), RDF_type, GEOLOD("DrillingSite")>> \in g

----------------------------------------------------------------------------
(* Claims about sequences of calls on one graph *)

SiteCalls == {i \in 1..Len(log) : log[i].op \in SiteOps}
CollectionCalls == {i \in 1..Len(log) : log[i].op = "add_feature_collection"}

\* every geometry has the single type sf:Point and one asWKT literal, every
\* site has one label and one hasGeometry link
ExactlyOneOfEach(graph) ==
    /\ \A gm \in GeometryEntities(graph) :
          /\ Objects(graph, gm, RDF_type) = {SF("Point")}
          /\ Cardinality(Objects(graph, gm, GEO("asWKT"))) = 1
    /\ \A s \in SiteEntities(graph) :
          /\ Cardinality(Objects(graph, s, RDFS_label)) = 1
          /\ Cardinality(Objects(graph, s, GEO("hasGeometry"))) = 1

AtLeastOneOfEach(graph) ==
    /\ \A gm \in GeometryEntities(graph) :
          /\ SF("Point") \in Objects(graph, gm, RDF_type)
          /\ Objects(graph, gm, GEO("asWKT")) # {}
    /\ \A s \in SiteEntities(graph) :
          /\ Objects(graph, s, RDFS_label) # {}
          /\ Objects(graph, s, GEO("hasGeometry")) # {}

\* the calls agree about every URI: a site URI always comes with the same
\* label and geometry URI, a geometry URI always with the same coordinates or
\* WKT string through the same entry point, and no URI is passed in two
\* roles (site, geometry, collection)
CallsAgree ==
    /\ \A i, j \in SiteCalls :
          /\ log[i].subject = log[j].subject =>
                log[i].label = log[j].label /\ log[i].geom = log[j].geom
          /\ log[i].geom = log[j].geom =>
                /\ log[i].op = log[j].op
                /\ log[i].lon = log[j].lon /\ log[i].lat = log[j].lat
                /\ log[i].wkt = log[j].wkt
          /\ log[i].subject # log[j].geom
    /\ \A k \in CollectionCalls, i \in SiteCalls :
          log[k].subject \notin {log[i].subject, log[i].geom}

WktTriples(graph) == {t \in graph : t[2] = GEO("asWKT")}

C9_AppendOnly == [][g \subseteq g']_vars

\* C9 witness: a second call has reused the site of the first with another
\* label, and the first call's label is still in the graph
C9_Witness ==
    /\ Len(log) = 2
    /\ log[1].op \in SiteOps /\ log[2].op \in SiteOps
    /\ log[1].subject = log[2].subject
    /\ log[1].label # log[2].label
    /\ <<log[1].subject, RDFS_label, Literal(log[1].label, "en", NoDatatype)>> \in g

\* C10: re-invoking add_geo_site or add_geo_site_from_wkt with the arguments
\* of an earlier call on the same graph is a no-op: the set of triples after
\* the repeated call equals the set before it.
C10_RepeatIsNoOp ==
    [][(\E i \in 1..Len(log) :
            log[i].op \in SiteOps /\ log' = Append(log, log[i])) => g' = g]_vars

\* C10 witness: the same site call has been made twice in a row
C10_Witness ==
    /\ Len(log) = 2
    /\ log[1].op \in SiteOps
    /\ log[2] = log[1]
    /\ g # {}

----------------------------------------------------------------------------
(* One site built on two fresh graphs: from coordinates and from WKT text *)

\* x written with p decimal digits denotes x itself: nothing is rounded away
WritesExactly(x, p) ==
    RoundScaled(x, p) * Pow(2, FracBits) = x.mag * Pow(10, p)

\* "POINT(lon lat)" with lon written with p and lat with q decimal digits
PointText(lon, lat, p, q) ==
    <<"P", "O", "I", "N", "T", "(">>
    \o format_f(lon, p) \o <<" ">> \o format_f(lat, q) \o <<")">>

\* the WKT strings an input file may hold for the point (lon, lat): any
\* number of decimal digits that writes the coordinate exactly, with or
\* without the CRS prefix, with or without whitespace around the value
PointTexts(lon, lat) ==
    { lead \o head \o PointText(lon, lat, p, q) \o trail :
        lead \in {<<>>, <<" ">>},
        head \in {<<>>, CrsPrefix \o <<" ">>},
        trail \in {<<>>, <<"\n">>},
        p \in {d \in Precisions : WritesExactly(lon, d)},
        q \in {d \in Precisions : WritesExactly(lat, d)} }

\* 0.0, 0.5 and 10.0 at FracBits = 3, and the Dome C longitude
PairLons == {NoFloat, [neg |-> FALSE, mag |-> 4], [neg |-> TRUE, mag |-> 80], DomeC}
PairLats == {South, North, [neg |-> FALSE, mag |-> 8]}

InitPair ==
    /\ GraphIdle
    /\ \E lon \in PairLons, lat \in PairLats :
          \E w \in PointTexts(lon, lat) :
              pair = [pc |-> "start", lon |-> lon, lat |-> lat, w |-> w,
                      g1 |-> get_graph, g2 |-> get_graph]
    /\ fac = FacIdle
    /\ fs = FsIdle
    /\ ret = <<>>
    /\ wr = WrIdle
    /\ orch = OrchIdle

\* add_geo_site(g1, ...) and add_geo_site_from_wkt(g2, ...) with the same
\* URIs, label and extra types
BuildBoth ==
    /\ pair.pc = "start"
    /\ pair' = [pair EXCEPT
          !.pc = "done",
          !.g1 = add_geo_site(pair.g1, GEOLOD("Cave_site_0001"),
                              GEOLOD("Cave_site_0001_Geometry"), <<"A">>,
                              pair.lon, pair.lat, <<GEOLOD("Cave")>>),
          !.g2 = add_geo_site_from_wkt(pair.g2, GEOLOD("Cave_site_0001"),
                              GEOLOD("Cave_site_0001_Geometry"), <<"A">>,
                              pair.w, <<GEOLOD("Cave")>>)]
    /\ UNCHANGED <<orch, pt, crs, g, log, fac, fs, ret, wr>>

NextPair == BuildBoth

SpecPair == InitPair /\ [][NextPair]_vars

----------------------------------------------------------------------------
(* Claims about the two entry points *)

\* the triples of a graph other than the geo:asWKT ones
ExceptWkt(graph) == {t \in graph : t[2] # GEO("asWKT")}

\* w, trimmed, is the six-decimal text wkt_point writes for (lon, lat), with
\* or without its CRS prefix
IsCanonicalText(w, lon, lat) ==
    LET canonical == wkt_point(lon, lat, DefaultPrecision)
    IN  \/ strip(w) = canonical
        \/ CrsPrefix \o <<" ">> \o strip(w) = canonical

\* C11 (as claimed): for every lon, lat and every WKT string denoting the same
\* point, in whatever decimal formatting, add_geo_site and
\* add_geo_site_from_wkt leave two fresh graphs with identical content.
C11_IdenticalGraphs ==
    pair.pc = "done" => pair.g1 = pair.g2

\* C11 (amended): the two graphs agree in every triple other than the asWKT
\* literal, and they are identical exactly when the WKT string, trimmed, is
\* "POINT(lon lat)" with six decimal digits, with or without the CRS prefix;
\* add_geo_site_from_wkt stores the digits the caller wrote.
C11_IdenticalForCanonicalText ==
    pair.pc = "done" =>
        /\ ExceptWkt(pair.g1) = ExceptWkt(pair.g2)
        /\ (pair.g1 = pair.g2) <=> IsCanonicalText(pair.w, pair.lon, pair.lat)

\* C11 witness: " POINT(123.375000 -75.125000)\n" without prefix has been
\* stored, and the two graphs are identical
C11_Witness ==
    /\ pair.pc = "done"
    /\ pair.lon = DomeC
    /\ pair.lat = South
    /\ pair.w = <<" ">> \o PointText(DomeC, South, DefaultPrecision, DefaultPrecision)
                 \o <<"\n">>
    /\ pair.g1 = pair.g2
    /\ Cardinality(pair.g1) = 8

----------------------------------------------------------------------------
(* One collection declared on a graph that holds at most one site *)

\* two sites the graph may hold and one URI that is never described
MemberUris == SiteUris \cup {GEOLOD("Cave_site_0002")}
CollMemberLists == SeqsUpTo(MemberUris, MaxMembers)

CollAddGeoSite ==
    /\ log = <<>>
    /\ \E site_uri \in SiteUris, geom_uri \in GeomUris :
          AddGeoSite(site_uri, geom_uri, <<"A">>, DomeC, South, <<>>)

CollAddFeatureCollection ==
    /\ \A i \in 1..Len(log) : log[i].op # "add_feature_collection"
    /\ \E collection_uri \in CollectionUris, label \in Labels,
          members \in CollMemberLists :
            AddFeatureCollection(collection_uri, label, members)

NextColl == CollAddGeoSite \/ CollAddFeatureCollection

SpecColl == InitGraph /\ [][NextColl]_vars

----------------------------------------------------------------------------
(* Claims about add_feature_collection *)

\* the last call made
LastCall == log[Len(log)]

\* this step is a call of add_feature_collection
CollectionStep ==
    /\ Len(log') = Len(log) + 1
    /\ log'[Len(log')].op = "add_feature_collection"

\* the elements of a list
Range(q) == {q[i] : i \in 1..Len(q)}

\* every ordering of a list
Orderings(q) ==
    LET n == Len(q)
    IN  { [i \in 1..n |-> q[f[i]]] :
            f \in {h \in [1..n -> 1..n] : \A i, j \in 1..n : h[i] = h[j] => i = j} }

\* the graph the call leaves is the same for every ordering of its members
SameForEveryOrdering(call) ==
    \A q \in Orderings(call.members) :
        g' = add_feature_collection(g, call.subject, call.label, q)

\* C12 (as claimed): after add_feature_collection(g, c, label, members) the
\* graph holds one type triple (c, rdf:type, geo:FeatureCollection), one
\* English label of c and one membership triple per element of members, two
\* for every two-element list, and it is the same for every ordering of members.
C12_OneTriplePerElement ==
    [][CollectionStep =>
        LET call == log'[Len(log')]
            c    == call.subject
        IN  /\ Objects(g', c, RDF_type) = {GEO("FeatureCollection")}
            /\ Objects(g', c, RDFS_label) = {Literal(call.label, "en", NoDatatype)}
            /\ Cardinality(Objects(g', c, RDFS_member)) = Len(call.members)
            /\ SameForEveryOrdering(call)]_vars

\* C12 (amended): on a graph that holds no triple about c, the call leaves
\* one type triple, one English label and one membership triple per distinct
\* element of members (two for a list of two different members), and the
\* graph is the same for every ordering of members.
C12_OneTriplePerDistinctElement ==
    [][(CollectionStep /\ \A t \in g : t[1] # log'[Len(log')].subject) =>
        LET call == log'[Len(log')]
            c    == call.subject
        IN  /\ Objects(g', c, RDF_type) = {GEO("FeatureCollection")}
            /\ Objects(g', c, RDFS_label) = {Literal(call.label, "en", NoDatatype)}
            /\ Objects(g', c, RDFS_member) = Range(call.members)
            /\ Cardinality(Objects(g', c, RDFS_member))
                 = Cardinality(Range(call.members))
            /\ SameForEveryOrdering(call)]_vars

\* C12 witness: the collection was declared with two different members on a
\* graph that holds one of them, and the graph holds the two membership triples
C12_Witness ==
    /\ Len(log) = 2
    /\ LastCall.op = "add_feature_collection"
    /\ LastCall.subject = GEOLOD("SISAL_Cave_Collection")
    /\ LastCall.members = <<GEOLOD("Cave_site_0002"), GEOLOD("Cave_site_0001")>>
    /\ Objects(g, LastCall.subject, RDFS_member)
         = {GEOLOD("Cave_site_0001"), GEOLOD("Cave_site_0002")}
    /\ Cardinality({t \in g : t[1] = LastCall.subject}) = 4

----------------------------------------------------------------------------
(* The graph factory: the optional import of rdflib, then get_graph *)

\* the prefixes of NS in the order of the table
NS_items ==
    <<"rdf", "rdfs", "owl", "xsd", "geo", "sf", "crm", "crmsci", "sosa", "ssn",
      "qudt", "unit", "prov", "dct", "dcat", "void", "skos", "geolod">>

\* one namespace binding of a graph: prefix (numbered when num > 0) and URI
Binding(prefix, num, ns) == [prefix |-> prefix, num |-> num, ns |-> ns]

\* the store drops what the prefix and the namespace were bound to before
store_bind(b, prefix, num, ns) ==
    {x \in b : ~(x.prefix = prefix /\ x.num = num) /\ x.ns # ns}
    \cup {Binding(prefix, num, ns)}

\* the first number n >= 1 such that prefix<n> is free or bound to ns
FirstNumber(b, prefix, ns) ==
    CHOOSE n \in 1..(Cardinality(b) + 1) :
        /\ \A x \in b : (x.prefix = prefix /\ x.num = n) => x.ns = ns
        /\ \A m \in 1..(n - 1) :
              \E x \in b : x.prefix = prefix /\ x.num = m /\ x.ns # ns

\* a variant of Graph.bind called with override=False: a namespace that has
\* a prefix keeps it
bind_no_override(b, prefix, ns) ==
    IF \E x \in b : x.prefix = prefix /\ x.num = 0 /\ x.ns # ns
    THEN LET n == FirstNumber(b, prefix, ns)
         IN  IF Binding(prefix, n, ns) \in b THEN b
             ELSE store_bind(b, prefix, n, ns)
    ELSE IF \E x \in b : x.ns = ns THEN b
         ELSE store_bind(b, prefix, 0, ns)

\* g.bind(prefix, Namespace(uri)) with rdflib's defaults override=True,
\* replace=False: a prefix in use for another namespace is not taken over, the
\* namespace gets the prefix with a number appended; a namespace bound to
\* another prefix is rebound
bind(b, prefix, ns) ==
    IF \E x \in b : x.prefix = prefix /\ x.num = 0 /\ x.ns # ns
    THEN LET n == FirstNumber(b, prefix, ns)
         IN  IF Binding(prefix, n, ns) \in b THEN b
             ELSE store_bind(b, prefix, n, ns)
    ELSE IF Binding(prefix, 0, ns) \in b THEN b
         ELSE store_bind(b, prefix, 0, ns)

\* for prefix, uri in NS.items(): g.bind(prefix, Namespace(uri))
RECURSIVE bind_items(_, _)
bind_items(b, items) ==
    IF items = <<>> THEN b
    ELSE bind_items(bind(b, Head(items), NS[Head(items)]), Tail(items))

\* the import of the module: a missing rdflib is caught and recorded
import_module(f) ==
    [f EXCEPT !.pc = "imported", !.RDF_AVAILABLE = f.installed]

\* a variant that hands out an empty, unbound graph when rdflib is missing
get_graph_fallback(f) ==
    IF ~f.RDF_AVAILABLE
    THEN [f EXCEPT !.pc = "returned", !.returned = TRUE,
                   !.triples = {}, !.bindings = {}]
    ELSE [f EXCEPT !.pc = "returned", !.returned = TRUE,
                   !.triples = {}, !.bindings = bind_items(f.store, NS_items)]

\* get_graph as a call: raise ImportError, or Graph() and the bind loop
get_graph_call(f) ==
    IF ~f.RDF_AVAILABLE
    THEN [f EXCEPT !.pc = "raised", !.raised = "ImportError"]
    ELSE [f EXCEPT !.pc = "returned", !.returned = TRUE,
                   !.triples = {}, !.bindings = bind_items(f.store, NS_items)]

\* bindings a new rdflib Graph may come with, depending on the rdflib
\* release: the core four, or every namespace rdflib defines (Dublin Core
\* terms under the prefix dcterms)
StoreBindings ==
    { Binding("xml", 0, "http://www.w3.org/XML/1998/namespace"),
      Binding("rdf", 0, NS.rdf),
      Binding("rdfs", 0, NS.rdfs),
      Binding("xsd", 0, NS.xsd),
      Binding("geo", 0, NS.geo),
      Binding("dcterms", 0, NS.dct),
      Binding("schema", 0, "https://schema.org/") }

InitFactory ==
    /\ GraphIdle
    /\ pair = PairIdle
    /\ \E installed \in BOOLEAN :
          \E store \in (IF installed THEN SUBSET StoreBindings ELSE {{}}) :
              fac = [FacIdle EXCEPT !.pc = "start", !.installed = installed,
                                    !.store = store]
    /\ fs = FsIdle
    /\ ret = <<>>
    /\ wr = WrIdle
    /\ orch = OrchIdle

ImportModule ==
    /\ fac.pc = "start"
    /\ fac' = import_module(fac)
    /\ UNCHANGED <<orch, pt, crs, g, log, pair, fs, ret, wr>>

CallGetGraph ==
    /\ fac.pc = "imported"
    /\ fac' = get_graph_call(fac)
    /\ UNCHANGED <<orch, pt, crs, g, log, pair, fs, ret, wr>>

\* the caller adds its first triple to the graph it was given
FirstInsertion ==
    /\ fac.pc = "returned"
    /\ fac' = [fac EXCEPT !.pc = "in use",
                  !.triples = add(fac.triples,
                      <<GEOLOD("EpicaDomeC_Site"), RDF_type, GEO("Feature")>>)]
    /\ UNCHANGED <<orch, pt, crs, g, log, pair, fs, ret, wr>>

NextFactory == ImportModule \/ CallGetGraph \/ FirstInsertion

SpecFactory == InitFactory /\ [][NextFactory]_vars

----------------------------------------------------------------------------
(* Claims about get_graph *)

\* the namespaces a prefix is bound to
NamespacesOf(b, prefix) == {x.ns : x \in {y \in b : y.prefix = prefix /\ y.num = 0}}

\* C13: every graph returned by get_graph holds no triple and has every
\* prefix of NS bound to the URI of the table, before any triple is added.
C13_FreshGraphBound ==
    fac.pc = "returned" =>
        /\ fac.triples = {}
        /\ fac.triples = get_graph
        /\ \A i \in 1..Len(NS_items) :
              NamespacesOf(fac.bindings, NS_items[i]) = {NS[NS_items[i]]}

\* C13 witness: get_graph has returned a graph whose rdflib came with
\* dcterms and geo bound; dct is now the prefix of the Dublin Core terms
C13_Witness ==
    /\ fac.pc = "returned"
    /\ Binding("dcterms", 0, NS.dct) \in fac.store
    /\ Binding("geo", 0, NS.geo) \in fac.store
    /\ Binding("dct", 0, NS.dct) \in fac.bindings
    /\ Binding("dcterms", 0, NS.dct) \notin fac.bindings
    /\ Cardinality(fac.bindings) >= Len(NS_items)

\* C14: without rdflib the import of the module succeeds, and get_graph
\* fails with ImportError at the call: no graph, no fallback object is
\* returned, so no triple is ever inserted.
C14_FailsAtTheCall ==
    /\ fac.pc = "imported" => fac.raised = ""
    /\ (fac.pc \notin {"idle", "start", "imported"} /\ ~fac.installed) =>
          /\ fac.pc = "raised"
          /\ fac.raised = "ImportError"
          /\ ~fac.returned
          /\ fac.triples = {}
          /\ fac.bindings = {}

\* C14 witness: rdflib is missing, the import went through and get_graph
\* has raised
C14_Witness ==
    /\ ~fac.installed
    /\ ~fac.RDF_AVAILABLE
    /\ fac.pc = "raised"
    /\ fac.raised = "ImportError"

----------------------------------------------------------------------------
(* The fixed texts.  A text is the sequence of its lines, each ended by a  *)
(* newline; a line is a sequence of tokens: a run of ASCII characters, or  *)
(* one non-ASCII character written as its code point "U+XXXX".  In the     *)
(* instance diagrams the window, order and member numbers of the labels    *)
(* are tokens of their own.  A prefixed name p:local is the three tokens   *)
(* p, ":" and local, and ":" is a token nowhere else; an IRI is "<", the   *)
(* IRI and ">"; a Turtle comment and a Turtle string are not split.  In    *)
(* the taxonomy a node line is indentation, identifier, "[\"", the label   *)
(* and "\"]", an edge line is identifier, arrow, identifier.               *)

\* the Turtle text of the core ontology, after textwrap.dedent
GEO_LOD_CORE_TTL ==
    << <<"# ==========================================================================">>,
       <<"# geo_lod_core.ttl">>,
       <<"# geo-lod Core Ontology  ", "U+2014", "  shared vocabulary for EPICA and SISAL">>,
       <<"# <http://w3id.org/geo-lod/>">>,
       <<"#">>,
       <<"# Domain-specific extensions:">>,
       <<"#   epica_ontology.ttl  (IceCore, DrillingSite, CH4Observation, ...)">>,
       <<"#   sisal_ontology.ttl  (Cave, Speleothem, SpeleothemObservation, ...)">>,
       <<"# Both import this file via owl:imports.">>,
       <<"#">>,
       <<"# GeoSPARQL geometry pattern (CI_full.py, Florian Thiery, MIT 2023):">>,
       <<"#   site  a geo:Feature, crm:E53_Place, crm:E27_Site ;">>,
       <<"#         geo:hasGeometry  site_geom .">>,
       <<"#   site_geom  a sf:Point ;">>,
       <<"#     geo:asWKT \"<http://www.opengis.net/def/crs/EPSG/0/4326> POINT(lon lat)\"">>,
       <<"#              ^^geo:wktLiteral .">>,
       <<"# ==========================================================================">>,
       <<>>,
       <<"@prefix ", "rdf", ":", "     <", "http://www.w3.org/1999/02/22-rdf-syntax-ns#", "> .">>,
       <<"@prefix ", "rdfs", ":", "    <", "http://www.w3.org/2000/01/rdf-schema#", "> .">>,
       <<"@prefix ", "owl", ":", "     <", "http://www.w3.org/2002/07/owl#", "> .">>,
       <<"@prefix ", "xsd", ":", "     <", "http://www.w3.org/2001/XMLSchema#", "> .">>,
       <<"@prefix ", "geo", ":", "     <", "http://www.opengis.net/ont/geosparql#", "> .">>,
       <<"@prefix ", "sf", ":", "      <", "http://www.opengis.net/ont/sf#", "> .">>,
       <<"@prefix ", "crm", ":", "     <", "http://www.cidoc-crm.org/cidoc-crm/", "> .">>,
       <<"@prefix ", "crmsci", ":", "  <", "http://www.ics.forth.gr/isl/CRMsci/", "> .">>,
       <<"@prefix ", "sosa", ":", "    <", "http://www.w3.org/ns/sosa/", "> .">>,
       <<"@prefix ", "qudt", ":", "    <", "http://qudt.org/schema/qudt/", "> .">>,
       <<"@prefix ", "unit", ":", "    <", "http://qudt.org/vocab/unit/", "> .">>,
       <<"@prefix ", "prov", ":", "    <", "http://www.w3.org/ns/prov#", "> .">>,
       <<"@prefix ", "dct", ":", "     <", "http://purl.org/dc/terms/", "> .">>,
       <<"@prefix ", "dcat", ":", "    <", "http://www.w3.org/ns/dcat#", "> .">>,
       <<"@prefix ", "skos", ":", "    <", "http://www.w3.org/2004/02/skos/core#", "> .">>,
       <<"@prefix ", "geolod", ":", "  <", "http://w3id.org/geo-lod/", "> .">>,
       <<>>,
       <<"<", "http://w3id.org/geo-lod/", ">">>,
       <<"    a ", "owl", ":", "Ontology", " ;">>,
       <<"    ", "rdfs", ":", "label", "   ", "\"geo-lod Core Ontology\"", "@en ;">>,
       <<"    ", "rdfs", ":", "comment", " ", "\"Shared vocabulary for EPICA ice-core and SISAL speleothem \\">>,
       <<"palaeoclimate Linked Data. Domain extensions import this file.\"", "@en ;">>,
       <<"    ", "owl", ":", "versionInfo", " ", "\"1.0\"", " .">>,
       <<>>,
       <<"# ==========================================================================">>,
       <<"# CLASSES">>,
       <<"# ==========================================================================">>,
       <<>>,
       <<"# -- SamplingLocation  (superclass: DrillingSite in EPICA, Cave in SISAL) --">>,
       <<>>,
       <<"geolod", ":", "SamplingLocation">>,
       <<"    a ", "owl", ":", "Class", " ;">>,
       <<"    ", "rdfs", ":", "subClassOf", " ", "geo", ":", "Feature", " ;">>,
       <<"    ", "rdfs", ":", "subClassOf", " ", "crm", ":", "E53_Place", " ;">>,
       <<"    ", "rdfs", ":", "subClassOf", " ", "crm", ":", "E27_Site", " ;">>,
       <<"    ", "rdfs", ":", "label", "   ", "\"Sampling Location\"", "@en ;">>,
       <<"    ", "rdfs", ":", "comment", " ", "\"A geographically identified location from which palaeoclimate \\">>,
       <<"proxy material was obtained (ice-core drilling site or speleothem cave).\"", "@en .">>,
       <<>>,
       <<"# -- PalaeoclimateSample  (superclass: IceCore in EPICA, Speleothem in SISAL) --">>,
       <<>>,
       <<"geolod", ":", "PalaeoclimateSample">>,
       <<"    a ", "owl", ":", "Class", " ;">>,
       <<"    ", "rdfs", ":", "subClassOf", " ", "sosa", ":", "Sample", " ;">>,
       <<"    ", "rdfs", ":", "label", "   ", "\"Palaeoclimate Sample\"", "@en ;">>,
       <<"    ", "rdfs", ":", "comment", " ", "\"A physical archive recording a palaeoclimate signal \\">>,
       <<"(ice core or speleothem).\"", "@en .">>,
       <<>>,
       <<"# -- PalaeoclimateObservation  (superclass for all measurement types) --">>,
       <<>>,
       <<"geolod", ":", "PalaeoclimateObservation">>,
       <<"    a ", "owl", ":", "Class", " ;">>,
       <<"    ", "rdfs", ":", "subClassOf", " ", "crmsci", ":", "S4_Observation", " ;">>,
       <<"    ", "rdfs", ":", "subClassOf", " ", "sosa", ":", "Observation", " ;">>,
       <<"    ", "rdfs", ":", "label", "   ", "\"Palaeoclimate Observation\"", "@en ;">>,
       <<"    ", "rdfs", ":", "comment", " ", "\"A single measured value (e.g. ", "U+03B4", "U+00B9", "U+2078", "O, ", "U+03B4", "U+00B9", "U+00B3", "C, CH", "U+2084", ") at a \\">>,
       <<"known depth or age within a palaeoclimate archive.\"", "@en .">>,
       <<>>,
       <<"# -- ObservableProperty --">>,
       <<>>,
       <<"geolod", ":", "ObservableProperty">>,
       <<"    a ", "owl", ":", "Class", " ;">>,
       <<"    ", "rdfs", ":", "subClassOf", " ", "sosa", ":", "ObservableProperty", " ;">>,
       <<"    ", "rdfs", ":", "subClassOf", " ", "crmsci", ":", "S9_Property_Type", " ;">>,
       <<"    ", "rdfs", ":", "label", "   ", "\"Observable Property\"", "@en ;">>,
       <<"    ", "rdfs", ":", "comment", " ", "\"A measurable geochemical or physical property of a \\">>,
       <<"palaeoclimate sample (e.g. ", "U+03B4", "U+00B9", "U+2078", "O, ", "U+03B4", "U+00B9", "U+00B3", "C, CH", "U+2084", " concentration).\"", "@en .">>,
       <<>>,
       <<"geolod", ":", "Delta18OProperty">>,
       <<"    a ", "owl", ":", "Class", " ;">>,
       <<"    ", "rdfs", ":", "subClassOf", " ", "geolod", ":", "ObservableProperty", " ;">>,
       <<"    ", "rdfs", ":", "label", "   ", "\"", "U+03B4", "U+00B9", "U+2078", "O Property\"", "@en ;">>,
       <<"    ", "rdfs", ":", "comment", " ", "\"Stable oxygen isotope ratio (", "U+03B4", "U+00B9", "U+2078", "O), shared by both \\">>,
       <<"ice-core and speleothem records.\"", "@en .">>,
       <<>>,
       <<"# -- Chronology  (superclass: IceCoreChronology in EPICA, UThChronology in SISAL) --">>,
       <<>>,
       <<"geolod", ":", "Chronology">>,
       <<"    a ", "owl", ":", "Class", " ;">>,
       <<"    ", "rdfs", ":", "label", "   ", "\"Chronology\"", "@en ;">>,
       <<"    ", "rdfs", ":", "comment", " ", "\"A depth-age model assigning calendar ages to positions \\">>,
       <<"within a palaeoclimate archive.\"", "@en .">>,
       <<>>,
       <<"# -- MeasurementType --">>,
       <<>>,
       <<"geolod", ":", "MeasurementType">>,
       <<"    a ", "owl", ":", "Class", " ;">>,
       <<"    ", "rdfs", ":", "subClassOf", " ", "crmsci", ":", "S6_Data_Evaluation", " ;">>,
       <<"    ", "rdfs", ":", "label", "   ", "\"Measurement Type\"", "@en ;">>,
       <<"    ", "rdfs", ":", "comment", " ", "\"Classifies an observation by the physical quantity measured.\"", "@en .">>,
       <<>>,
       <<"# -- SmoothingMethod and subclasses --">>,
       <<>>,
       <<"geolod", ":", "SmoothingMethod">>,
       <<"    a ", "owl", ":", "Class", " ;">>,
       <<"    ", "rdfs", ":", "subClassOf", " ", "crmsci", ":", "S6_Data_Evaluation", " ;">>,
       <<"    ", "rdfs", ":", "label", "   ", "\"Smoothing Method\"", "@en ;">>,
       <<"    ", "rdfs", ":", "comment", " ", "\"A numerical method applied to reduce high-frequency \\">>,
       <<"noise in a palaeoclimate time series.\"", "@en .">>,
       <<>>,
       <<"geolod", ":", "RollingMedianFilter">>,
       <<"    a ", "owl", ":", "Class", " ;">>,
       <<"    ", "rdfs", ":", "subClassOf", " ", "geolod", ":", "SmoothingMethod", " ;">>,
       <<"    ", "rdfs", ":", "label", "   ", "\"Rolling Median Filter\"", "@en ;">>,
       <<"    ", "rdfs", ":", "comment", " ", "\"Non-parametric smoother computing the median within \\">>,
       <<"a sliding window of fixed width.\"", "@en .">>,
       <<>>,
       <<"geolod", ":", "SavitzkyGolayFilter">>,
       <<"    a ", "owl", ":", "Class", " ;">>,
       <<"    ", "rdfs", ":", "subClassOf", " ", "geolod", ":", "SmoothingMethod", " ;">>,
       <<"    ", "rdfs", ":", "label", "   ", "\"Savitzky-Golay Filter\"", "@en ;">>,
       <<"    ", "rdfs", ":", "comment", " ", "\"Polynomial least-squares smoothing filter preserving \\">>,
       <<"higher signal moments.\"", "@en .">>,
       <<>>,
       <<"# -- DataSource --">>,
       <<>>,
       <<"geolod", ":", "DataSource">>,
       <<"    a ", "owl", ":", "Class", " ;">>,
       <<"    ", "rdfs", ":", "subClassOf", " ", "prov", ":", "Entity", " ;">>,
       <<"    ", "rdfs", ":", "label", "   ", "\"Data Source\"", "@en ;">>,
       <<"    ", "rdfs", ":", "comment", " ", "\"A citable source (database, repository, publication) \\">>,
       <<"from which palaeoclimate observations were obtained.\"", "@en .">>,
       <<>>,
       <<"# ==========================================================================">>,
       <<"# OBJECT PROPERTIES">>,
       <<"# ==========================================================================">>,
       <<>>,
       <<"geolod", ":", "ageChronology">>,
       <<"    a ", "owl", ":", "ObjectProperty", " ;">>,
       <<"    ", "rdfs", ":", "label", "   ", "\"age chronology\"", "@en ;">>,
       <<"    ", "rdfs", ":", "comment", " ", "\"Links an observation to the depth-age model used.\"", "@en .">>,
       <<>>,
       <<"geolod", ":", "measurementType">>,
       <<"    a ", "owl", ":", "ObjectProperty", " ;">>,
       <<"    ", "rdfs", ":", "domain", "  ", "geolod", ":", "PalaeoclimateObservation", " ;">>,
       <<"    ", "rdfs", ":", "range", "   ", "geolod", ":", "MeasurementType", " ;">>,
       <<"    ", "rdfs", ":", "label", "   ", "\"measurement type\"", "@en .">>,
       <<>>,
       <<"geolod", ":", "smoothingMethod_median">>,
       <<"    a ", "owl", ":", "ObjectProperty", " ;">>,
       <<"    ", "rdfs", ":", "domain", "  ", "geolod", ":", "PalaeoclimateObservation", " ;">>,
       <<"    ", "rdfs", ":", "range", "   ", "geolod", ":", "RollingMedianFilter", " ;">>,
       <<"    ", "rdfs", ":", "label", "   ", "\"smoothing method (rolling median)\"", "@en .">>,
       <<>>,
       <<"geolod", ":", "smoothingMethod_savgol">>,
       <<"    a ", "owl", ":", "ObjectProperty", " ;">>,
       <<"    ", "rdfs", ":", "domain", "  ", "geolod", ":", "PalaeoclimateObservation", " ;">>,
       <<"    ", "rdfs", ":", "range", "   ", "geolod", ":", "SavitzkyGolayFilter", " ;">>,
       <<"    ", "rdfs", ":", "label", "   ", "\"smoothing method (Savitzky-Golay)\"", "@en .">>,
       <<>>,
       <<"geolod", ":", "tookPlaceAt">>,
       <<"    a ", "owl", ":", "ObjectProperty", " ;">>,
       <<"    ", "rdfs", ":", "range", "   ", "geolod", ":", "SamplingLocation", " ;">>,
       <<"    ", "rdfs", ":", "label", "   ", "\"took place at\"", "@en ;">>,
       <<"    ", "rdfs", ":", "comment", " ", "\"Links a sampling event or campaign to its location.\"", "@en .">>,
       <<>>,
       <<"geolod", ":", "extractedFrom">>,
       <<"    a ", "owl", ":", "ObjectProperty", " ;">>,
       <<"    ", "rdfs", ":", "domain", "  ", "geolod", ":", "PalaeoclimateSample", " ;">>,
       <<"    ", "rdfs", ":", "range", "   ", "geolod", ":", "SamplingLocation", " ;">>,
       <<"    ", "rdfs", ":", "label", "   ", "\"extracted from\"", "@en .">>,
       <<>>,
       <<"geolod", ":", "removedSample">>,
       <<"    a ", "owl", ":", "ObjectProperty", " ;">>,
       <<"    ", "rdfs", ":", "label", "   ", "\"removed sample\"", "@en ;">>,
       <<"    ", "rdfs", ":", "comment", " ", "\"Links a sampling event to the sample taken.\"", "@en .">>,
       <<>>,
       <<"geolod", ":", "hasObservation">>,
       <<"    a ", "owl", ":", "ObjectProperty", " ;">>,
       <<"    ", "rdfs", ":", "label", "   ", "\"has observation\"", "@en .">>,
       <<>>,
       <<"# ==========================================================================">>,
       <<"# DATATYPE PROPERTIES">>,
       <<"# ==========================================================================">>,
       <<>>,
       <<"geolod", ":", "ageKaBP">>,
       <<"    a ", "owl", ":", "DatatypeProperty", " ;">>,
       <<"    ", "rdfs", ":", "range", "   ", "xsd", ":", "decimal", " ;">>,
       <<"    ", "rdfs", ":", "label", "   ", "\"age (ka BP)\"", "@en ;">>,
       <<"    ", "rdfs", ":", "comment", " ", "\"Age in thousands of years before present (ka BP).\"", "@en .">>,
       <<>>,
       <<"geolod", ":", "measuredValue">>,
       <<"    a ", "owl", ":", "DatatypeProperty", " ;">>,
       <<"    ", "rdfs", ":", "domain", "  ", "geolod", ":", "PalaeoclimateObservation", " ;">>,
       <<"    ", "rdfs", ":", "range", "   ", "xsd", ":", "decimal", " ;">>,
       <<"    ", "rdfs", ":", "label", "   ", "\"measured value\"", "@en .">>,
       <<>>,
       <<"geolod", ":", "smoothedValue_rollingMedian">>,
       <<"    a ", "owl", ":", "DatatypeProperty", " ;">>,
       <<"    ", "rdfs", ":", "domain", "  ", "geolod", ":", "PalaeoclimateObservation", " ;">>,
       <<"    ", "rdfs", ":", "range", "   ", "xsd", ":", "decimal", " ;">>,
       <<"    ", "rdfs", ":", "label", "   ", "\"smoothed value (rolling median)\"", "@en .">>,
       <<>>,
       <<"geolod", ":", "smoothedValue_savgol">>,
       <<"    a ", "owl", ":", "DatatypeProperty", " ;">>,
       <<"    ", "rdfs", ":", "domain", "  ", "geolod", ":", "PalaeoclimateObservation", " ;">>,
       <<"    ", "rdfs", ":", "range", "   ", "xsd", ":", "decimal", " ;">>,
       <<"    ", "rdfs", ":", "label", "   ", "\"smoothed value (Savitzky-Golay)\"", "@en .">>,
       <<>>,
       <<"geolod", ":", "windowSize">>,
       <<"    a ", "owl", ":", "DatatypeProperty", " ;">>,
       <<"    ", "rdfs", ":", "domain", "  ", "geolod", ":", "SmoothingMethod", " ;">>,
       <<"    ", "rdfs", ":", "range", "   ", "xsd", ":", "integer", " ;">>,
       <<"    ", "rdfs", ":", "label", "   ", "\"window size\"", "@en ;">>,
       <<"    ", "rdfs", ":", "comment", " ", "\"Number of data points in the smoothing window.\"", "@en .">>,
       <<>>,
       <<"geolod", ":", "polyOrder">>,
       <<"    a ", "owl", ":", "DatatypeProperty", " ;">>,
       <<"    ", "rdfs", ":", "domain", "  ", "geolod", ":", "SavitzkyGolayFilter", " ;">>,
       <<"    ", "rdfs", ":", "range", "   ", "xsd", ":", "integer", " ;">>,
       <<"    ", "rdfs", ":", "label", "   ", "\"polynomial order\"", "@en .">>,
       <<>>,
       <<"# ==========================================================================">>,
       <<"# NAMED INDIVIDUALS  ", "U+2014", " shared between EPICA and SISAL">>,
       <<"# ==========================================================================">>,
       <<>>,
       <<"geolod", ":", "Delta18O">>,
       <<"    a ", "geolod", ":", "Delta18OProperty", ", ", "owl", ":", "NamedIndividual", " ;">>,
       <<"    ", "rdfs", ":", "label", "   ", "\"", "U+03B4", "U+00B9", "U+2078", "O\"", "@en ;">>,
       <<"    ", "rdfs", ":", "comment", " ", "\"Stable oxygen isotope ratio ", "U+2014", " shared observable property \\">>,
       <<"used in both ice-core and speleothem observations.\"", "@en .">>,
       <<>>,
       <<"geolod", ":", "MeasurementType_d18O">>,
       <<"    a ", "geolod", ":", "MeasurementType", ", ", "owl", ":", "NamedIndividual", " ;">>,
       <<"    ", "rdfs", ":", "label", "   ", "\"", "U+03B4", "U+00B9", "U+2078", "O measurement\"", "@en .">>,
       <<>>,
       <<"# ==========================================================================">>,
       <<"# EXTERNAL VOCABULARY LABELS">>,
       <<"# (so Prot", "U+00E9", "g", "U+00E9", " also shows labels for imported terms)">>,
       <<"# ==========================================================================">>,
       <<>>,
       <<"geo", ":", "Feature">>,
       <<"    ", "rdfs", ":", "label", "   ", "\"Feature\"", "@en ;">>,
       <<"    ", "rdfs", ":", "comment", " ", "\"An abstraction of a real-world phenomenon (OGC GeoSPARQL).\"", "@en .">>,
       <<>>,
       <<"geo", ":", "FeatureCollection">>,
       <<"    ", "rdfs", ":", "label", "   ", "\"Feature Collection\"", "@en ;">>,
       <<"    ", "rdfs", ":", "comment", " ", "\"A collection of geo:Feature instances (GeoSPARQL 1.1).\"", "@en .">>,
       <<>>,
       <<"geo", ":", "Geometry">>,
       <<"    ", "rdfs", ":", "label", "   ", "\"Geometry\"", "@en ;">>,
       <<"    ", "rdfs", ":", "comment", " ", "\"A coherent set of direct positions in space (OGC GeoSPARQL).\"", "@en .">>,
       <<>>,
       <<"geo", ":", "hasGeometry", "    ", "rdfs", ":", "label", " ", "\"has geometry\"", "@en .">>,
       <<"geo", ":", "asWKT", "          ", "rdfs", ":", "label", " ", "\"as WKT\"", "@en .">>,
       <<>>,
       <<"sf", ":", "Point">>,
       <<"    ", "rdfs", ":", "label", "   ", "\"Point\"", "@en ;">>,
       <<"    ", "rdfs", ":", "comment", " ", "\"A single location in n-dimensional space (OGC Simple Features). \\">>,
       <<"Subclass of geo:Geometry.\"", "@en .">>,
       <<>>,
       <<"crm", ":", "E27_Site">>,
       <<"    ", "rdfs", ":", "label", "   ", "\"Site\"", "@en ;">>,
       <<"    ", "rdfs", ":", "comment", " ", "\"A place that was or is the focus of human activity (CIDOC-CRM E27).\"", "@en .">>,
       <<>>,
       <<"crm", ":", "E53_Place">>,
       <<"    ", "rdfs", ":", "label", "   ", "\"Place\"", "@en ;">>,
       <<"    ", "rdfs", ":", "comment", " ", "\"An extent in space (CIDOC-CRM E53).\"", "@en .">>,
       <<>>,
       <<"crmsci", ":", "S4_Observation">>,
       <<"    ", "rdfs", ":", "label", "   ", "\"Observation\"", "@en ;">>,
       <<"    ", "rdfs", ":", "comment", " ", "\"A scientific observation event (CRMsci S4).\"", "@en .">>,
       <<>>,
       <<"crmsci", ":", "S6_Data_Evaluation">>,
       <<"    ", "rdfs", ":", "label", "   ", "\"Data Evaluation\"", "@en ;">>,
       <<"    ", "rdfs", ":", "comment", " ", "\"A process producing a value by evaluating data (CRMsci S6).\"", "@en .">>,
       <<>>,
       <<"crmsci", ":", "S9_Property_Type">>,
       <<"    ", "rdfs", ":", "label", "   ", "\"Property Type\"", "@en ;">>,
       <<"    ", "rdfs", ":", "comment", " ", "\"A type of measurable property (CRMsci S9).\"", "@en .">>,
       <<>>,
       <<"crmsci", ":", "S1_Matter_Removal">>,
       <<"    ", "rdfs", ":", "label", "   ", "\"Matter Removal\"", "@en ;">>,
       <<"    ", "rdfs", ":", "comment", " ", "\"A process of removing matter from an object (CRMsci S1).\"", "@en .">>,
       <<>>,
       <<"sosa", ":", "Observation", "        ", "rdfs", ":", "label", " ", "\"Observation\"", "@en .">>,
       <<"sosa", ":", "ObservableProperty", " ", "rdfs", ":", "label", " ", "\"Observable Property\"", "@en .">>,
       <<"sosa", ":", "Sample", "             ", "rdfs", ":", "label", " ", "\"Sample\"", "@en .">>,
       <<"prov", ":", "Entity", "             ", "rdfs", ":", "label", " ", "\"Entity\"", "@en .">> >>

\* the class-taxonomy flowchart, after textwrap.dedent
MERMAID_TAXONOMY ==
    << <<"flowchart LR">>,
       <<"%% External Ontologies">>,
       <<"subgraph ", "EXT", "[\"", "External Ontologies", "\"]">>,
       <<"    direction TB">>,
       <<>>,
       <<"    ", "subgraph ", "CRM", "[\"", "CIDOC-CRM", "\"]">>,
       <<"        direction TB">>,
       <<"        ", "CE53", "[\"", "crm", ":", "E53_Place", "\"]">>,
       <<"        ", "CE27", "[\"", "crm", ":", "E27_Site", "\"]">>,
       <<"        ", "CE22", "[\"", "crm", ":", "E22_Human-Made_Object", "\"]">>,
       <<"        ", "CE7", "[\"", "crm", ":", "E7_Activity", "\"]">>,
       <<"    end">>,
       <<>>,
       <<"    ", "subgraph ", "CRMSCI", "[\"", "CRMsci", "\"]">>,
       <<"        direction TB">>,
       <<"        ", "CS4", "[\"", "crmsci", ":", "S4_Observation", "\"]">>,
       <<"        ", "CS1", "[\"", "crmsci", ":", "S1_Matter_Removal", "\"]">>,
       <<"        ", "CS6", "[\"", "crmsci", ":", "S6_Data_Evaluation", "\"]">>,
       <<"        ", "CS9", "[\"", "crmsci", ":", "S9_Property_Type", "\"]">>,
       <<"    end">>,
       <<>>,
       <<"    ", "subgraph ", "SOSA", "[\"", "SOSA", "\"]">>,
       <<"        direction TB">>,
       <<"        ", "SO", "[\"", "sosa", ":", "Observation", "\"]">>,
       <<"        ", "SS", "[\"", "sosa", ":", "Sample", "\"]">>,
       <<"        ", "SP", "[\"", "sosa", ":", "ObservableProperty", "\"]">>,
       <<"    end">>,
       <<>>,
       <<"    ", "subgraph ", "GEO", "[\"", "GeoSPARQL", "\"]">>,
       <<"        ", "GF", "[\"", "geo", ":", "Feature", "\"]">>,
       <<"    end">>,
       <<>>,
       <<"    ", "subgraph ", "PROV", "[\"", "PROV-O", "\"]">>,
       <<"        ", "PE", "[\"", "prov", ":", "Entity", "\"]">>,
       <<"    end">>,
       <<"end">>,
       <<>>,
       <<"%% Core Ontology">>,
       <<"subgraph ", "CORE", "[\"", "geo-lod Core Ontology", "\"]">>,
       <<"    direction TB">>,
       <<"    ", "PALOBS", "[\"", "PalaeoclimateObservation", "\"]">>,
       <<"    ", "PALSAMPLE", "[\"", "PalaeoclimateSample", "\"]">>,
       <<"    ", "SAMPLINGLOC", "[\"", "SamplingLocation", "\"]">>,
       <<"    ", "CHRONO", "[\"", "Chronology", "\"]">>,
       <<"    ", "OBSPROP", "[\"", "ObservableProperty", "\"]">>,
       <<"    ", "DATASRC", "[\"", "DataSource", "\"]">>,
       <<"    ", "MTYPE", "[\"", "MeasurementType", "\"]">>,
       <<"    ", "SMOOTH", "[\"", "SmoothingMethod", "\"]">>,
       <<"end">>,
       <<>>,
       <<"%% EPICA Extension">>,
       <<"subgraph ", "EPICA", "[\"", "EPICA Ice Core Extension", "\"]">>,
       <<"    direction TB">>,
       <<"    ", "ICEOBS", "[\"", "IceCoreObservation", "\"]">>,
       <<"    ", "CH4OBS", "[\"", "CH4Observation", "\"]">>,
       <<"    ", "D18OOBS", "[\"", "Delta18OObservation", "\"]">>,
       <<"    ", "ICECORE", "[\"", "IceCore", "\"]">>,
       <<"    ", "DRILLSITE", "[\"", "DrillingSite", "\"]">>,
       <<"    ", "DRILLCAMP", "[\"", "DrillingCampaign", "\"]">>,
       <<"    ", "ICECHRONO", "[\"", "IceCoreChronology", "\"]">>,
       <<"end">>,
       <<>>,
       <<"%% SISAL Extension">>,
       <<"subgraph ", "SISAL", "[\"", "SISAL Speleothem Extension", "\"]">>,
       <<"    direction TB">>,
       <<"    ", "SPELOBS", "[\"", "SpeleothemObservation", "\"]">>,
       <<"    ", "D18OSPELOBS", "[\"", "Delta18OSpeleothemObservation", "\"]">>,
       <<"    ", "D13COBS", "[\"", "Delta13CSpeleothemObservation", "\"]">>,
       <<"    ", "SPEL", "[\"", "Speleothem", "\"]">>,
       <<"    ", "CAVE", "[\"", "Cave", "\"]">>,
       <<"    ", "SSE", "[\"", "SpeleothemSamplingEvent", "\"]">>,
       <<"    ", "UTHCHRONO", "[\"", "UThChronology", "\"]">>,
       <<"end">>,
       <<>>,
       <<"%% External to Core relationships">>,
       <<"SO", " -.-> ", "PALOBS">>,
       <<"CS4", " -.-> ", "PALOBS">>,
       <<"SS", " -.-> ", "PALSAMPLE">>,
       <<"CE53", " -.-> ", "SAMPLINGLOC">>,
       <<"CE27", " -.-> ", "SAMPLINGLOC">>,
       <<"GF", " -.-> ", "SAMPLINGLOC">>,
       <<"SP", " -.-> ", "OBSPROP">>,
       <<"CS9", " -.-> ", "OBSPROP">>,
       <<"CS9", " -.-> ", "MTYPE">>,
       <<"CS6", " -.-> ", "CHRONO">>,
       <<"CS6", " -.-> ", "SMOOTH">>,
       <<"PE", " -.-> ", "DATASRC">>,
       <<"CE7", " -.-> ", "DRILLCAMP">>,
       <<"CS1", " -.-> ", "DRILLCAMP">>,
       <<"CE7", " -.-> ", "SSE">>,
       <<"CS1", " -.-> ", "SSE">>,
       <<>>,
       <<"%% Core to Extensions">>,
       <<"PALOBS", " --> ", "ICEOBS">>,
       <<"PALOBS", " --> ", "SPELOBS">>,
       <<"ICEOBS", " --> ", "CH4OBS">>,
       <<"ICEOBS", " --> ", "D18OOBS">>,
       <<"SPELOBS", " --> ", "D18OSPELOBS">>,
       <<"SPELOBS", " --> ", "D13COBS">>,
       <<>>,
       <<"PALSAMPLE", " --> ", "ICECORE">>,
       <<"PALSAMPLE", " --> ", "SPEL">>,
       <<"CE22", " -.-> ", "ICECORE">>,
       <<>>,
       <<"SAMPLINGLOC", " --> ", "DRILLSITE">>,
       <<"SAMPLINGLOC", " --> ", "CAVE">>,
       <<>>,
       <<"CHRONO", " --> ", "ICECHRONO">>,
       <<"CHRONO", " --> ", "UTHCHRONO">>,
       <<>>,
       <<"%% Styling - External Ontologies">>,
       <<"style EXT fill:#fafafa,stroke:#999,color:#333">>,
       <<"style CRM fill:#fde8e8,stroke:#9b2226,color:#333">>,
       <<"style CRMSCI fill:#ffe8e8,stroke:#e63946,color:#333">>,
       <<"style SOSA fill:#e8f0fb,stroke:#1d3557,color:#333">>,
       <<"style GEO fill:#e8f1f7,stroke:#457b9d,color:#333">>,
       <<"style PROV fill:#fef0e8,stroke:#e76f51,color:#333">>,
       <<>>,
       <<"style CE53 fill:#9b2226,color:#fff,stroke:#7a1a1d">>,
       <<"style CE27 fill:#9b2226,color:#fff,stroke:#7a1a1d">>,
       <<"style CE22 fill:#9b2226,color:#fff,stroke:#7a1a1d">>,
       <<"style CE7 fill:#9b2226,color:#fff,stroke:#7a1a1d">>,
       <<"style CS4 fill:#e63946,color:#fff,stroke:#c1121f">>,
       <<"style CS1 fill:#e63946,color:#fff,stroke:#c1121f">>,
       <<"style CS6 fill:#e63946,color:#fff,stroke:#c1121f">>,
       <<"style CS9 fill:#e63946,color:#fff,stroke:#c1121f">>,
       <<"style SO fill:#1d3557,color:#fff,stroke:#0d2137">>,
       <<"style SS fill:#1d3557,color:#fff,stroke:#0d2137">>,
       <<"style SP fill:#1d3557,color:#fff,stroke:#0d2137">>,
       <<"style GF fill:#457b9d,color:#fff,stroke:#2c5f7a">>,
       <<"style PE fill:#e76f51,color:#fff,stroke:#c45c3e">>,
       <<>>,
       <<"%% Styling - Core">>,
       <<"style CORE fill:#e8f4f8,stroke:#457b9d,stroke-width:2px,color:#333">>,
       <<"style PALOBS fill:#74c0fc,color:#000,stroke:#1971c2,stroke-width:2px">>,
       <<"style PALSAMPLE fill:#74c0fc,color:#000,stroke:#1971c2,stroke-width:2px">>,
       <<"style SAMPLINGLOC fill:#74c0fc,color:#000,stroke:#1971c2,stroke-width:2px">>,
       <<"style CHRONO fill:#74c0fc,color:#000,stroke:#1971c2,stroke-width:2px">>,
       <<"style OBSPROP fill:#a5d8ff,color:#000,stroke:#4dabf7">>,
       <<"style DATASRC fill:#a5d8ff,color:#000,stroke:#4dabf7">>,
       <<"style MTYPE fill:#a5d8ff,color:#000,stroke:#4dabf7">>,
       <<"style SMOOTH fill:#a5d8ff,color:#000,stroke:#4dabf7">>,
       <<>>,
       <<"%% Styling - EPICA">>,
       <<"style EPICA fill:#d4edda,stroke:#2d6a4f,stroke-width:2px,color:#333">>,
       <<"style ICEOBS fill:#2d6a4f,color:#fff,stroke:#1b4332,stroke-width:2px">>,
       <<"style CH4OBS fill:#40916c,color:#fff,stroke:#2d6a4f">>,
       <<"style D18OOBS fill:#40916c,color:#fff,stroke:#2d6a4f">>,
       <<"style ICECORE fill:#2d6a4f,color:#fff,stroke:#1b4332,stroke-width:2px">>,
       <<"style DRILLSITE fill:#2d6a4f,color:#fff,stroke:#1b4332,stroke-width:2px">>,
       <<"style DRILLCAMP fill:#2d6a4f,color:#fff,stroke:#1b4332,stroke-width:2px">>,
       <<"style ICECHRONO fill:#40916c,color:#fff,stroke:#2d6a4f">>,
       <<>>,
       <<"%% Styling - SISAL">>,
       <<"style SISAL fill:#fff3cd,stroke:#856404,stroke-width:2px,color:#333">>,
       <<"style SPELOBS fill:#856404,color:#fff,stroke:#664d03,stroke-width:2px">>,
       <<"style D18OSPELOBS fill:#b8860b,color:#fff,stroke:#856404">>,
       <<"style D13COBS fill:#b8860b,color:#fff,stroke:#856404">>,
       <<"style SPEL fill:#856404,color:#fff,stroke:#664d03,stroke-width:2px">>,
       <<"style CAVE fill:#856404,color:#fff,stroke:#664d03,stroke-width:2px">>,
       <<"style SSE fill:#856404,color:#fff,stroke:#664d03,stroke-width:2px">>,
       <<"style UTHCHRONO fill:#b8860b,color:#fff,stroke:#856404">> >>

\* the EPICA instance flowchart: an f-string without replacement fields, so
\* rw, sgw and sgp are not used
_mermaid_instance_epica(rw, sgw, sgp) ==
    << <<"flowchart LR">>,
       <<>>,
       <<"CATALOG([\"PalaeoclimateDataCatalogue">>,
       <<"geolod", ":", "EPICA_DomeC_Catalog", "\"])">>,
       <<>>,
       <<"DATASET([\"IceCoreDataset">>,
       <<"geolod", ":", "EPICA_DomeC_Dataset", "\"])">>,
       <<>>,
       <<"OBS([\"IceCoreObservation">>,
       <<"geolod", ":", "Obs_CH4_0001">>,
       <<"geolod", ":", "Obs_d18O_0001", "\"])">>,
       <<>>,
       <<"CORE([\"IceCore">>,
       <<"geolod", ":", "EpicaDomeC_IceCore", "\"])">>,
       <<>>,
       <<"SITE([\"DrillingSite">>,
       <<"geolod", ":", "EpicaDomeC_Site", "\"])">>,
       <<>>,
       <<"CAMPAIGN([\"DrillingCampaign">>,
       <<"EPICA Dome C 1996-2004\"])">>,
       <<>>,
       <<"PROP_CH4([\"CH4ConcentrationProperty\"])">>,
       <<"PROP_D18O([\"Delta18OProperty\"])">>,
       <<"MTYPE_CH4([\"MeasurementType CH4\"])">>,
       <<"MTYPE_D18O([\"MeasurementType d18O\"])">>,
       <<"CHRON_EDC2([\"EDC2 Chronology\"])">>,
       <<"CHRON_AICC([\"AICC2023 Chronology\"])">>,
       <<"MEDIAN([\"RollingMedianFilter w", "11", "\"])">>,
       <<"SG([\"SavitzkyGolayFilter w", "11", " p", "2", "\"])">>,
       <<"SOURCE_CH4([\"PANGAEA 472484">>,
       <<"Spahni 2006\"])">>,
       <<"SOURCE_D18O([\"PANGAEA 961024">>,
       <<"Bouchet 2023\"])">>,
       <<>>,
       <<"GEOM([\"", "sf", ":", "Point">>,
       <<"geolod", ":", "EpicaDomeC_Geometry", "\"])">>,
       <<>>,
       <<"LDEPTH((atDepth_m))">>,
       <<"LAGE((ageKaBP))">>,
       <<"LVAL((measuredValue))">>,
       <<"LMEDIAN((smoothed median))">>,
       <<"LSG((smoothed savgol))">>,
       <<"LWKT((asWKT POINT))">>,
       <<"LPPB((unit PPB))">>,
       <<"LPRM((unit PERMILLE))">>,
       <<>>,
       <<"CATALOG -->|", "dcat", ":", "dataset", "| DATASET">>,
       <<"DATASET -->|hasObservation| OBS">>,
       <<"DATASET -->|hasDrillingCampaign| CAMPAIGN">>,
       <<"OBS -->|hasFeatureOfInterest| CORE">>,
       <<"OBS -->|observedProperty| PROP_CH4">>,
       <<"OBS -->|observedProperty| PROP_D18O">>,
       <<"OBS -->|measurementType| MTYPE_CH4">>,
       <<"OBS -->|measurementType| MTYPE_D18O">>,
       <<"OBS -->|ageChronology| CHRON_EDC2">>,
       <<"OBS -->|ageChronology| CHRON_AICC">>,
       <<"OBS -->|smoothingMethod| MEDIAN">>,
       <<"OBS -->|smoothingMethod| SG">>,
       <<"OBS -->|wasDerivedFrom| SOURCE_CH4">>,
       <<"OBS -->|wasDerivedFrom| SOURCE_D18O">>,
       <<"OBS -.->|atDepth_m| LDEPTH">>,
       <<"OBS -.->|ageKaBP| LAGE">>,
       <<"OBS -.->|measuredValue| LVAL">>,
       <<"OBS -.->|smoothed| LMEDIAN">>,
       <<"OBS -.->|smoothed| LSG">>,
       <<"PROP_CH4 -.->|unit| LPPB">>,
       <<"PROP_D18O -.->|unit| LPRM">>,
       <<"CORE -->|extractedFrom| SITE">>,
       <<"CAMPAIGN -->|tookPlaceAt| SITE">>,
       <<"CAMPAIGN -->|removedSample| CORE">>,
       <<"SITE -->|", "geo", ":", "hasGeometry", "| GEOM">>,
       <<"GEOM -.->|asWKT| LWKT">>,
       <<>>,
       <<"%% Main instances - darker green">>,
       <<"style CATALOG fill:#2d6a4f,color:#fff,stroke:#1b4332,stroke-width:2px">>,
       <<"style DATASET fill:#2d6a4f,color:#fff,stroke:#1b4332,stroke-width:2px">>,
       <<"style OBS fill:#2d6a4f,color:#fff,stroke:#1b4332,stroke-width:2px">>,
       <<"style CORE fill:#2d6a4f,color:#fff,stroke:#1b4332,stroke-width:2px">>,
       <<"style SITE fill:#2d6a4f,color:#fff,stroke:#1b4332,stroke-width:2px">>,
       <<"style CAMPAIGN fill:#2d6a4f,color:#fff,stroke:#1b4332,stroke-width:2px">>,
       <<>>,
       <<"%% Supporting instances - lighter green">>,
       <<"style PROP_CH4 fill:#40916c,color:#fff,stroke:#2d6a4f">>,
       <<"style PROP_D18O fill:#40916c,color:#fff,stroke:#2d6a4f">>,
       <<"style MTYPE_CH4 fill:#40916c,color:#fff,stroke:#2d6a4f">>,
       <<"style MTYPE_D18O fill:#40916c,color:#fff,stroke:#2d6a4f">>,
       <<"style CHRON_EDC2 fill:#40916c,color:#fff,stroke:#2d6a4f">>,
       <<"style CHRON_AICC fill:#40916c,color:#fff,stroke:#2d6a4f">>,
       <<"style MEDIAN fill:#40916c,color:#fff,stroke:#2d6a4f">>,
       <<"style SG fill:#40916c,color:#fff,stroke:#2d6a4f">>,
       <<"style SOURCE_CH4 fill:#40916c,color:#fff,stroke:#2d6a4f">>,
       <<"style SOURCE_D18O fill:#40916c,color:#fff,stroke:#2d6a4f">>,
       <<>>,
       <<"%% Geometry - blue">>,
       <<"style GEOM fill:#457b9d,color:#fff,stroke:#2c5f7a">>,
       <<>>,
       <<"%% Literals - bright yellow">>,
       <<"style LDEPTH fill:#ffd60a,color:#000,stroke:#d4a005,stroke-width:2px">>,
       <<"style LAGE fill:#ffd60a,color:#000,stroke:#d4a005,stroke-width:2px">>,
       <<"style LVAL fill:#ffd60a,color:#000,stroke:#d4a005,stroke-width:2px">>,
       <<"style LMEDIAN fill:#ffd60a,color:#000,stroke:#d4a005,stroke-width:2px">>,
       <<"style LSG fill:#ffd60a,color:#000,stroke:#d4a005,stroke-width:2px">>,
       <<"style LWKT fill:#ffd60a,color:#000,stroke:#d4a005,stroke-width:2px">>,
       <<"style LPPB fill:#ffd60a,color:#000,stroke:#d4a005,stroke-width:2px">>,
       <<"style LPRM fill:#ffd60a,color:#000,stroke:#d4a005,stroke-width:2px">> >>

\* the SISAL instance flowchart: an f-string without replacement fields, so
\* n is not used
_mermaid_instance_sisal(n) ==
    << <<"flowchart LR">>,
       <<>>,
       <<"COLLECTION([\"", "geo", ":", "FeatureCollection">>,
       <<"geolod", ":", "SISAL_Cave_Collection">>,
       <<"305", " members\"])">>,
       <<>>,
       <<"CAVE([\"Cave">>,
       <<"geolod", ":", "Cave_site_0001", "\"])">>,
       <<>>,
       <<"GEOM([\"", "sf", ":", "Point">>,
       <<"geolod", ":", "Cave_site_0001_Geometry", "\"])">>,
       <<>>,
       <<"SPEL([\"Speleothem">>,
       <<"geolod", ":", "Speleothem_entity_XXXX", "\"])">>,
       <<>>,
       <<"SSE([\"SpeleothemSamplingEvent\"])">>,
       <<>>,
       <<"OBS([\"SpeleothemObservation">>,
       <<"geolod", ":", "Obs_d18O_XXXX">>,
       <<"geolod", ":", "Obs_d13C_XXXX", "\"])">>,
       <<>>,
       <<"PROP_D18O([\"Delta18OProperty\"])">>,
       <<"PROP_D13C([\"Delta13CProperty\"])">>,
       <<"MTYPE_D18O([\"MeasurementType d18O\"])">>,
       <<"MTYPE_D13C([\"MeasurementType d13C\"])">>,
       <<"UTHC([\"UThChronology\"])">>,
       <<"MEDIAN([\"RollingMedianFilter w", "11", "\"])">>,
       <<"SAVGOL([\"SavitzkyGolayFilter w", "11", " p", "2", "\"])">>,
       <<"DATASRC([\"SISALv3 DataSource\"])">>,
       <<>>,
       <<"LAGE((ageKaBP))">>,
       <<"LDEPTH((atDepth_mm))">>,
       <<"LVAL((measuredValue))">>,
       <<"LMEDIAN((smoothed median))">>,
       <<"LSG((smoothed savgol))">>,
       <<"LWKT((asWKT POINT))">>,
       <<"LPRM((unit PERMILLE))">>,
       <<>>,
       <<"COLLECTION -->|", "rdfs", ":", "member", "| CAVE">>,
       <<"CAVE -->|", "geo", ":", "hasGeometry", "| GEOM">>,
       <<"SPEL -->|collectedFrom| CAVE">>,
       <<"SSE -->|tookPlaceAt| CAVE">>,
       <<"SSE -->|removedSample| SPEL">>,
       <<"OBS -->|hasFeatureOfInterest| SPEL">>,
       <<"OBS -->|observedProperty| PROP_D18O">>,
       <<"OBS -->|observedProperty| PROP_D13C">>,
       <<"OBS -->|measurementType| MTYPE_D18O">>,
       <<"OBS -->|measurementType| MTYPE_D13C">>,
       <<"OBS -->|ageChronology| UTHC">>,
       <<"OBS -->|smoothingMethod| MEDIAN">>,
       <<"OBS -->|smoothingMethod| SAVGOL">>,
       <<"OBS -->|wasDerivedFrom| DATASRC">>,
       <<"OBS -.->|ageKaBP| LAGE">>,
       <<"OBS -.->|atDepth_mm| LDEPTH">>,
       <<"OBS -.->|measuredValue| LVAL">>,
       <<"OBS -.->|smoothed| LMEDIAN">>,
       <<"OBS -.->|smoothed| LSG">>,
       <<"PROP_D18O -.->|unit| LPRM">>,
       <<"PROP_D13C -.->|unit| LPRM">>,
       <<"GEOM -.->|asWKT| LWKT">>,
       <<>>,
       <<"%% Main instances - darker yellow/brown">>,
       <<"style COLLECTION fill:#856404,color:#fff,stroke:#664d03,stroke-width:2px">>,
       <<"style CAVE fill:#856404,color:#fff,stroke:#664d03,stroke-width:2px">>,
       <<"style SPEL fill:#856404,color:#fff,stroke:#664d03,stroke-width:2px">>,
       <<"style SSE fill:#856404,color:#fff,stroke:#664d03,stroke-width:2px">>,
       <<"style OBS fill:#856404,color:#fff,stroke:#664d03,stroke-width:2px">>,
       <<>>,
       <<"%% Supporting instances - lighter brown">>,
       <<"style PROP_D18O fill:#b8860b,color:#fff,stroke:#856404">>,
       <<"style PROP_D13C fill:#b8860b,color:#fff,stroke:#856404">>,
       <<"style MTYPE_D18O fill:#b8860b,color:#fff,stroke:#856404">>,
       <<"style MTYPE_D13C fill:#b8860b,color:#fff,stroke:#856404">>,
       <<"style UTHC fill:#b8860b,color:#fff,stroke:#856404">>,
       <<"style MEDIAN fill:#b8860b,color:#fff,stroke:#856404">>,
       <<"style SAVGOL fill:#b8860b,color:#fff,stroke:#856404">>,
       <<"style DATASRC fill:#b8860b,color:#fff,stroke:#856404">>,
       <<>>,
       <<"%% Geometry - blue">>,
       <<"style GEOM fill:#457b9d,color:#fff,stroke:#2c5f7a">>,
       <<>>,
       <<"%% Literals - bright yellow">>,
       <<"style LAGE fill:#ffd60a,color:#000,stroke:#d4a005,stroke-width:2px">>,
       <<"style LDEPTH fill:#ffd60a,color:#000,stroke:#d4a005,stroke-width:2px">>,
       <<"style LVAL fill:#ffd60a,color:#000,stroke:#d4a005,stroke-width:2px">>,
       <<"style LMEDIAN fill:#ffd60a,color:#000,stroke:#d4a005,stroke-width:2px">>,
       <<"style LSG fill:#ffd60a,color:#000,stroke:#d4a005,stroke-width:2px">>,
       <<"style LWKT fill:#ffd60a,color:#000,stroke:#d4a005,stroke-width:2px">>,
       <<"style LPRM fill:#ffd60a,color:#000,stroke:#d4a005,stroke-width:2px">> >>

----------------------------------------------------------------------------
(* Text files: encoding="utf-8" *)

\* the UTF-8 bytes of the non-ASCII characters of the texts; an ASCII run is
\* its own encoding
Utf8Table ==
    << <<<<"U+00B3">>, <<"xC2", "xB3">>>>,
       <<<<"U+00B9">>, <<"xC2", "xB9">>>>,
       <<<<"U+00E9">>, <<"xC3", "xA9">>>>,
       <<<<"U+03B4">>, <<"xCE", "xB4">>>>,
       <<<<"U+2014">>, <<"xE2", "x80", "x94">>>>,
       <<<<"U+2078">>, <<"xE2", "x81", "xB8">>>>,
       <<<<"U+2084">>, <<"xE2", "x82", "x84">>>> >>

CodePoints == {Utf8Table[i][1][1] : i \in 1..Len(Utf8Table)}
BytesOf(token) == (CHOOSE i \in 1..Len(Utf8Table) : Utf8Table[i][1][1] = token)
BytesOfEntry(i) == Utf8Table[i][2]

\* str.encode("utf-8") of one line
RECURSIVE encode_line(_)
encode_line(line) ==
    IF line = <<>> THEN <<>>
    ELSE (IF Head(line) \in CodePoints
          THEN BytesOfEntry(BytesOf(Head(line)))
          ELSE <<Head(line)>>) \o encode_line(Tail(line))

\* bytes.decode("utf-8") of one line
RECURSIVE decode_line(_)
decode_line(bytes) ==
    IF bytes = <<>> THEN <<>>
    ELSE LET hits == {i \in 1..Len(Utf8Table) :
                        /\ Len(BytesOfEntry(i)) <= Len(bytes)
                        /\ SubSeq(bytes, 1, Len(BytesOfEntry(i))) = BytesOfEntry(i)}
         IN  IF hits = {} THEN <<Head(bytes)>> \o decode_line(Tail(bytes))
             ELSE LET i == CHOOSE j \in hits : TRUE
                  IN  Utf8Table[i][1]
                      \o decode_line(SubSeq(bytes, Len(BytesOfEntry(i)) + 1, Len(bytes)))

\* a variant of the encoder for a one-byte code page: a character outside it
\* is written as "?"
encode_replace(text) ==
    [i \in 1..Len(text) |->
        [k \in 1..Len(text[i]) |->
            IF text[i][k] \in CodePoints THEN "?" ELSE text[i][k]]]

encode(text) == [i \in 1..Len(text) |-> encode_line(text[i])]
decode(data) == [i \in 1..Len(data) |-> decode_line(data[i])]

----------------------------------------------------------------------------
(* The file system *)

\* a path is the sequence of its components; <<>> is the working directory
join(outdir, filename) == Append(outdir, filename)

\* the path itself and the directories above it
Ancestors(path) == {SubSeq(path, 1, k) : k \in 0..Len(path)}

NoFiles == [p \in {} |-> <<>>]

Put(files, path, data) ==
    [p \in (DOMAIN files) \cup {path} |-> IF p = path THEN data ELSE files[p]]

\* os.makedirs(outdir, exist_ok=True): the directory and the missing ones
\* above it are made; a file in the way raises an OSError
makedirs(F, outdir) ==
    IF \E a \in Ancestors(outdir) : a \in DOMAIN F.files
    THEN [fs |-> F, raised |-> "OSError"]
    ELSE [fs |-> [F EXCEPT !.dirs = @ \cup Ancestors(outdir)], raised |-> ""]

\* a variant of open(path, "a"): the file is made if missing and kept as it is
open_a(F, path) ==
    IF path \in DOMAIN F.files THEN F
    ELSE [F EXCEPT !.files = Put(@, path, <<>>)]

\* open(path, "w"): the file is made if missing and cut to length 0
open_w(F, path) == [F EXCEPT !.files = Put(@, path, <<>>)]

ZeroLine == <<"x00">>

\* a variant for a descriptor in append mode: the data goes to the end of
\* the file wherever the descriptor stands
write_at_end(F, path, pos, data) ==
    [F EXCEPT !.files = Put(@, path, F.files[path] \o data)]

\* write(fd, data) at offset pos (in lines): data replaces what the file holds
\* from pos on, the file grows as needed, a gap is filled with zero bytes
write_at(F, path, pos, data) ==
    LET old  == F.files[path]
        n    == Len(data)
        size == IF pos + n > Len(old) THEN pos + n ELSE Len(old)
    IN  [F EXCEPT !.files = Put(@, path,
            [i \in 1..size |->
                IF i > pos /\ i <= pos + n THEN data[i - pos]
                ELSE IF i <= Len(old) THEN old[i]
                ELSE ZeroLine])]

\* the exception open(path, "w") raises, "" if it opens the file: a
\* directory cannot be opened for writing, and a file cannot be made in a
\* directory that does not exist
open_raises(F, path) ==
    IF path \in F.dirs THEN "IsADirectoryError"
    ELSE IF SubSeq(path, 1, Len(path) - 1) \notin F.dirs THEN "FileNotFoundError"
    ELSE ""

\* a variant that gives up silently when the file cannot be opened
write_text_quiet(F, path, text) ==
    IF open_raises(F, path) # "" THEN [fs |-> F, raised |-> ""]
    ELSE [fs |-> write_at(open_w(F, path), path, 0, encode(text)), raised |-> ""]

\* with open(path, "w", encoding="utf-8") as fh: fh.write(text)
\* the disk it leaves and the exception that leaves the statement, if any
write_text(F, path, text) ==
    IF open_raises(F, path) # "" THEN [fs |-> F, raised |-> open_raises(F, path)]
    ELSE [fs |-> write_at(open_w(F, path), path, 0, encode(text)), raised |-> ""]

\* open(path, encoding="utf-8").read()
read_text(F, path) == decode(F.files[path])

\* what a call returns or raises
Outcome(F, raised, path, paths) ==
    [fs |-> F, raised |-> raised, path |-> path, paths |-> paths]

NoPath == <<>>
NoPaths == [p \in {} |-> <<>>]

write_geo_lod_core(F, outdir) ==
    LET made  == makedirs(F, outdir)
        path  == join(outdir, "geo_lod_core.ttl")
        wrote == write_text(made.fs, path, GEO_LOD_CORE_TTL)
    IN  IF made.raised # "" THEN Outcome(made.fs, made.raised, NoPath, NoPaths)
        ELSE IF wrote.raised # "" THEN Outcome(wrote.fs, wrote.raised, NoPath, NoPaths)
        ELSE Outcome(wrote.fs, "", path, NoPaths)

----------------------------------------------------------------------------
(* write_geo_lod_core called by one pipeline, over what the disk may hold *)

OutDirs == {<<"out">>, <<"out", "ontology">>}

StaleLine == <<"# stale">>

\* the data an earlier run or another program may have left in a file that
\* is about to hold text: nothing, the text itself, its first lines, the
\* text followed by further lines
OldData(text) ==
    {<<>>, encode(text)}
    \cup {SubSeq(encode(text), 1, k) : k \in 1..MaxStale}
    \cup {encode(text) \o [i \in 1..k |-> StaleLine] : k \in 1..MaxStale}

\* the disk before the first call: no output directory (and maybe a file
\* where it should go), or "out", or "out" and "out/ontology", each with or
\* without an earlier geo_lod_core.ttl
CoreDisks ==
    {[dirs |-> {<<>>}, files |-> NoFiles],
     [dirs |-> {<<>>}, files |-> Put(NoFiles, <<"out">>, <<StaleLine>>)],
     [dirs |-> {<<>>, <<"out">>}, files |-> NoFiles],
     [dirs |-> {<<>>, <<"out">>, <<"out", "ontology">>}, files |-> NoFiles]}
    \cup {[dirs |-> {<<>>, <<"out">>},
           files |-> Put(NoFiles, join(<<"out">>, "geo_lod_core.ttl"), d)] :
            d \in OldData(GEO_LOD_CORE_TTL)}
    \cup {[dirs |-> {<<>>, <<"out">>, <<"out", "ontology">>},
           files |-> Put(NoFiles, join(<<"out", "ontology">>, "geo_lod_core.ttl"), d)] :
            d \in OldData(GEO_LOD_CORE_TTL)}
    \cup {[dirs |-> {<<>>, <<"out">>, <<"out", "ontology">>},
           files |-> Put(Put(NoFiles, join(<<"out">>, "geo_lod_core.ttl"), d),
                         join(<<"out", "ontology">>, "geo_lod_core.ttl"), e)] :
            d \in OldData(GEO_LOD_CORE_TTL), e \in {<<>>, <<StaleLine>>}}

\* the keyword arguments of write_mermaid
Args(rolling_window, sg_window, sg_poly, n_sisal_sites) ==
    [rolling_window |-> rolling_window, sg_window |-> sg_window,
     sg_poly |-> sg_poly, n_sisal_sites |-> n_sisal_sites]

NoArgs == Args(0, 0, 0, 0)

\* one entry of ret: the call, what the disk held before it, what it gave
Returned(op, outdir, args, F, out) ==
    [op |-> op, outdir |-> outdir, args |-> args, raised |-> out.raised,
     path |-> out.path, paths |-> out.paths,
     had_dir |-> outdir \in F.dirs,
     old |-> [p \in {q \in DOMAIN F.files : SubSeq(q, 1, Len(q) - 1) = outdir} |->
                 Len(F.files[p])]]

InitCore ==
    /\ GraphIdle
    /\ pair = PairIdle
    /\ fac = FacIdle
    /\ fs \in CoreDisks
    /\ ret = <<>>
    /\ wr = WrIdle
    /\ orch = OrchIdle

CallWriteGeoLodCore ==
    /\ Len(ret) < MaxWrites
    /\ \E outdir \in OutDirs :
          LET out == write_geo_lod_core(fs, outdir)
          IN  /\ fs' = out.fs
              /\ ret' = Append(ret, Returned("write_geo_lod_core", outdir, NoArgs, fs, out))
    /\ UNCHANGED <<orch, pt, crs, g, log, pair, fac, wr>>

NextCore == CallWriteGeoLodCore

SpecCore == InitCore /\ [][NextCore]_vars

----------------------------------------------------------------------------
(* Claims about write_geo_lod_core *)

CorePath(outdir) == join(outdir, "geo_lod_core.ttl")

\* C15: a call of write_geo_lod_core that returns has made output_dir if it
\* was missing, has left output_dir/geo_lod_core.ttl holding exactly the
\* encoded fixed text whatever the file held before (nothing of a longer
\* earlier content is left), and has returned that path.
C15_FileHoldsExactlyTheText ==
    \A i \in 1..Len(ret) :
        (ret[i].op = "write_geo_lod_core" /\ ret[i].raised = "") =>
            /\ ret[i].outdir \in fs.dirs
            /\ ret[i].path = CorePath(ret[i].outdir)
            /\ ret[i].path \in DOMAIN fs.files
            /\ fs.files[ret[i].path] = encode(GEO_LOD_CORE_TTL)
            /\ Len(fs.files[ret[i].path]) = Len(GEO_LOD_CORE_TTL)

\* C15 witness: the first call found out/geo_lod_core.ttl longer than the
\* text, the second made the missing out/ontology; both files hold the text
C15_Witness ==
    /\ Len(ret) = 2
    /\ ret[1].outdir = <<"out">>
    /\ CorePath(<<"out">>) \in DOMAIN ret[1].old
    /\ ret[1].old[CorePath(<<"out">>)] > Len(GEO_LOD_CORE_TTL)
    /\ ret[2].outdir = <<"out", "ontology">>
    /\ ~ret[2].had_dir
    /\ ret[2].path = <<"out", "ontology", "geo_lod_core.ttl">>
    /\ fs.files[ret[1].path] = encode(GEO_LOD_CORE_TTL)
    /\ fs.files[ret[2].path] = encode(GEO_LOD_CORE_TTL)

\* the step is a call of write_geo_lod_core that returned
CoreStep ==
    /\ Len(ret') = Len(ret) + 1
    /\ ret'[Len(ret')].op = "write_geo_lod_core"
    /\ ret'[Len(ret')].raised = ""

\* C16: after a call that returned, reading the file back gives the
\* in-memory constant GEO_LOD_CORE_TTL; a call that follows a call on the
\* same directory leaves the bytes and the size of the file as they were.
C16_ReadBackAndRepeat ==
    [][CoreStep =>
        LET call == ret'[Len(ret')]
        IN  /\ read_text(fs', call.path) = GEO_LOD_CORE_TTL
            /\ (\E i \in 1..Len(ret) : ret[i].outdir = call.outdir /\ ret[i].raised = "")
                 => /\ fs'.files[call.path] = fs.files[call.path]
                    /\ Len(fs'.files[call.path]) = Len(fs.files[call.path])
                    /\ fs' = fs]_vars

\* C16 witness: two calls on out/ontology have returned and the file read
\* back is the constant
C16_Witness ==
    /\ Len(ret) = 2
    /\ ret[1].outdir = <<"out", "ontology">>
    /\ ret[2].outdir = <<"out", "ontology">>
    /\ ret[1].raised = "" /\ ret[2].raised = ""
    /\ ret[2].path \in DOMAIN ret[2].old
    /\ ret[2].old[ret[2].path] = Len(GEO_LOD_CORE_TTL)
    /\ read_text(fs, ret[2].path) = GEO_LOD_CORE_TTL
    /\ fs.files[ret[2].path] # GEO_LOD_CORE_TTL

----------------------------------------------------------------------------
(* Two pipelines in write_geo_lod_core on the same directory; each makes   *)
(* the directory, opens the file (cutting it to length 0), writes the text *)
(* at its own offset in one or two pieces, and returns                     *)

RaceDir == <<"out">>

\* the length of the first piece a writer hands over
FirstPieces ==
    {Len(GEO_LOD_CORE_TTL)}
    \cup (1..MaxSplit)
    \cup {Len(GEO_LOD_CORE_TTL) - k : k \in 1..MaxSplit}

Writer(first) ==
    [pc |-> "call", first |-> first, pos |-> 0, met |-> -1,
     raised |-> "", path |-> NoPath]

InitRace ==
    /\ GraphIdle
    /\ pair = PairIdle
    /\ fac = FacIdle
    /\ fs \in {F \in CoreDisks : <<"out", "ontology">> \notin F.dirs}
    /\ ret = <<>>
    /\ \E a \in FirstPieces, b \in FirstPieces : wr = <<Writer(a), Writer(b)>>
    /\ orch = OrchIdle

\* os.makedirs(outdir, exist_ok=True)
RaceMakedirs(p) ==
    /\ wr[p].pc = "call"
    /\ LET made == makedirs(fs, RaceDir)
       IN  /\ fs' = made.fs
           /\ wr' = [wr EXCEPT ![p].pc = IF made.raised = "" THEN "made" ELSE "raised",
                               ![p].raised = made.raised]
    /\ UNCHANGED <<orch, pt, crs, g, log, pair, fac, ret>>

\* open(path, "w", encoding="utf-8")
RaceOpen(p) ==
    /\ wr[p].pc = "made"
    /\ fs' = open_w(fs, join(RaceDir, "geo_lod_core.ttl"))
    /\ wr' = [wr EXCEPT ![p].pc = "open", ![p].pos = 0,
                        ![p].met = IF wr[3 - p].pc = "open" THEN wr[3 - p].pos ELSE -1]
    /\ UNCHANGED <<orch, pt, crs, g, log, pair, fac, ret>>

\* fh.write(GEO_LOD_CORE_TTL): the next piece reaches the file
RaceWrite(p) ==
    /\ wr[p].pc = "open"
    /\ wr[p].pos < Len(GEO_LOD_CORE_TTL)
    /\ LET data == encode(GEO_LOD_CORE_TTL)
           upto == IF wr[p].pos = 0 THEN wr[p].first ELSE Len(data)
       IN  /\ fs' = write_at(fs, join(RaceDir, "geo_lod_core.ttl"), wr[p].pos,
                             SubSeq(data, wr[p].pos + 1, upto))
           /\ wr' = [wr EXCEPT ![p].pos = upto]
    /\ UNCHANGED <<orch, pt, crs, g, log, pair, fac, ret>>

\* the with block closes the file and the call returns the path
RaceReturn(p) ==
    /\ wr[p].pc = "open"
    /\ wr[p].pos = Len(GEO_LOD_CORE_TTL)
    /\ wr' = [wr EXCEPT ![p].pc = "returned",
                        ![p].path = join(RaceDir, "geo_lod_core.ttl")]
    /\ UNCHANGED <<orch, pt, crs, g, log, pair, fac, fs, ret>>

NextRace ==
    \E p \in {1, 2} :
        RaceMakedirs(p) \/ RaceOpen(p) \/ RaceWrite(p) \/ RaceReturn(p)

SpecRace == InitRace /\ [][NextRace]_vars

----------------------------------------------------------------------------
(* Claims about concurrent writers *)

\* C17: when two pipelines call write_geo_lod_core on the same directory, in
\* either order and with their open-truncate and write steps interleaved in
\* any way, the file holds exactly the fixed text once both calls have
\* returned.
C17_BothReturnedFileIsTheText ==
    (wr # WrIdle /\ wr[1].pc = "returned" /\ wr[2].pc = "returned") =>
        /\ wr[1].path = wr[2].path
        /\ wr[1].path \in DOMAIN fs.files
        /\ fs.files[wr[1].path] = encode(GEO_LOD_CORE_TTL)
        /\ read_text(fs, wr[1].path) = GEO_LOD_CORE_TTL

\* C17 witness: the second pipeline cut the file to length 0 after the first
\* had written the first line of its text and before it wrote the rest; both
\* have returned and the file holds the text
C17_Witness ==
    /\ wr # WrIdle
    /\ wr[1].pc = "returned"
    /\ wr[2].pc = "returned"
    /\ wr[1].first = 1
    /\ wr[2].met = 1
    /\ fs.files[wr[1].path] = encode(GEO_LOD_CORE_TTL)

----------------------------------------------------------------------------
(* write_mermaid *)

\* the defaults of write_mermaid
DefaultRollingWindow == 11
DefaultSgWindow == 11
DefaultSgPoly == 2
DefaultSisalSites == 305

\* a variant whose taxonomy diagram ends with the number of SISAL sites
diagrams_counted(rolling_window, sg_window, sg_poly, n_sisal_sites) ==
    << <<"mermaid_taxonomy.mermaid",
         Append(MERMAID_TAXONOMY, <<ToString(n_sisal_sites), " sites">>)>>,
       <<"mermaid_instance_epica.mermaid",
         _mermaid_instance_epica(rolling_window, sg_window, sg_poly)>>,
       <<"mermaid_instance_sisal.mermaid", _mermaid_instance_sisal(n_sisal_sites)>> >>

\* the dict diagrams, in insertion order: file name and content
diagrams(rolling_window, sg_window, sg_poly, n_sisal_sites) ==
    << <<"mermaid_taxonomy.mermaid", MERMAID_TAXONOMY>>,
       <<"mermaid_instance_epica.mermaid",
         _mermaid_instance_epica(rolling_window, sg_window, sg_poly)>>,
       <<"mermaid_instance_sisal.mermaid", _mermaid_instance_sisal(n_sisal_sites)>> >>

\* for filename, content in diagrams.items(): write the file; the loop ends
\* at the first file that cannot be written
RECURSIVE write_items(_, _, _)
write_items(F, outdir, items) ==
    IF items = <<>> THEN [fs |-> F, raised |-> ""]
    ELSE LET wrote == write_text(F, join(outdir, Head(items)[1]), Head(items)[2])
         IN  IF wrote.raised # "" THEN wrote
             ELSE write_items(wrote.fs, outdir, Tail(items))

\* paths[filename] = path, for every item
paths_of(outdir, items) ==
    [name \in {items[i][1] : i \in 1..Len(items)} |-> join(outdir, name)]

\* a variant that writes the two instance diagrams only
write_mermaid_instances(F, outdir, rolling_window, sg_window, sg_poly, n_sisal_sites) ==
    LET made  == makedirs(F, outdir)
        items == Tail(diagrams(rolling_window, sg_window, sg_poly, n_sisal_sites))
        wrote == write_items(made.fs, outdir, items)
    IN  IF made.raised # "" THEN Outcome(made.fs, made.raised, NoPath, NoPaths)
        ELSE IF wrote.raised # "" THEN Outcome(wrote.fs, wrote.raised, NoPath, NoPaths)
        ELSE Outcome(wrote.fs, "", NoPath, paths_of(outdir, items))

write_mermaid(F, outdir, rolling_window, sg_window, sg_poly, n_sisal_sites) ==
    LET made  == makedirs(F, outdir)
        items == diagrams(rolling_window, sg_window, sg_poly, n_sisal_sites)
        wrote == write_items(made.fs, outdir, items)
    IN  IF made.raised # "" THEN Outcome(made.fs, made.raised, NoPath, NoPaths)
        ELSE IF wrote.raised # "" THEN Outcome(wrote.fs, wrote.raised, NoPath, NoPaths)
        ELSE Outcome(wrote.fs, "", NoPath, paths_of(outdir, items))

\* the arguments of the callers: the defaults, another number of sites,
\* other filter settings
MermaidArgs ==
    { Args(DefaultRollingWindow, DefaultSgWindow, DefaultSgPoly, DefaultSisalSites),
      Args(DefaultRollingWindow, DefaultSgWindow, DefaultSgPoly, DefaultSisalSites + 1),
      Args(DefaultRollingWindow - 4, DefaultSgWindow - 2, DefaultSgPoly + 1,
           DefaultSisalSites),
      Args(DefaultRollingWindow + 2, DefaultSgWindow, DefaultSgPoly, 0) }

\* the disk before the first call: no output directory (and maybe a file
\* where it should go), or the directories with the ontology file of an
\* earlier step and maybe an earlier SISAL diagram
MermaidDisks ==
    {[dirs |-> {<<>>}, files |-> NoFiles],
     [dirs |-> {<<>>}, files |-> Put(NoFiles, <<"out">>, <<StaleLine>>)],
     [dirs |-> {<<>>, <<"out">>, <<"out", "ontology">>},
      files |-> Put(NoFiles, join(<<"out">>, "geo_lod_core.ttl"),
                    encode(GEO_LOD_CORE_TTL))]}
    \cup {[dirs |-> {<<>>, <<"out">>, <<"out", "ontology">>},
           files |-> Put(Put(NoFiles, join(<<"out">>, "geo_lod_core.ttl"),
                             encode(GEO_LOD_CORE_TTL)),
                         join(<<"out">>, "mermaid_instance_sisal.mermaid"), d)] :
            d \in OldData(_mermaid_instance_sisal(DefaultSisalSites))}

InitMermaid ==
    /\ GraphIdle
    /\ pair = PairIdle
    /\ fac = FacIdle
    /\ fs \in MermaidDisks
    /\ ret = <<>>
    /\ wr = WrIdle
    /\ orch = OrchIdle

CallWriteMermaid ==
    /\ Len(ret) < MaxWrites
    /\ \E outdir \in OutDirs, a \in MermaidArgs :
          LET out == write_mermaid(fs, outdir, a.rolling_window, a.sg_window,
                                   a.sg_poly, a.n_sisal_sites)
          IN  /\ fs' = out.fs
              /\ ret' = Append(ret, Returned("write_mermaid", outdir, a, fs, out))
    /\ UNCHANGED <<orch, pt, crs, g, log, pair, fac, wr>>

NextMermaid == CallWriteMermaid

SpecMermaid == InitMermaid /\ [][NextMermaid]_vars

----------------------------------------------------------------------------
(* Claims about write_mermaid *)

\* the last call of write_mermaid has returned
MermaidReturned ==
    /\ ret # <<>>
    /\ ret[Len(ret)].op = "write_mermaid"
    /\ ret[Len(ret)].raised = ""

\* the text of a diagram file the last call wrote
Written(filename) == read_text(fs, ret[Len(ret)].paths[filename])

\* a line of the text is exactly the given tokens
HasLine(text, line) == \E k \in 1..Len(text) : text[k] = line

\* the lines at which two texts differ
DiffLines(a, b) ==
    {k \in 1..(IF Len(a) > Len(b) THEN Len(a) ELSE Len(b)) :
        k > Len(a) \/ k > Len(b) \/ a[k] # b[k]}

\* the line of the SISAL diagram that gives the member count
MemberLines(text) ==
    {k \in 1..Len(text) :
        Len(text[k]) = 2 /\ text[k][2] = " members\"])"}

\* C18 (as claimed): for every N the SISAL instance diagram written by
\* write_mermaid(n_sisal_sites = N) shows N as the member count of the
\* collection, and the diagrams of two calls that differ only in the number
\* of sites differ at that line and nowhere else.
C18_MemberCountShown ==
    MermaidReturned =>
        LET n    == ret[Len(ret)].args.n_sisal_sites
            text == Written("mermaid_instance_sisal.mermaid")
        IN  /\ HasLine(text, <<ToString(n), " members\"])">>)
            /\ \A a \in MermaidArgs :
                  a.n_sisal_sites # n =>
                      /\ DiffLines(text, _mermaid_instance_sisal(a.n_sisal_sites)) # {}
                      /\ DiffLines(text, _mermaid_instance_sisal(a.n_sisal_sites))
                           \subseteq MemberLines(text)

\* C19 (as claimed): the filter labels of the EPICA instance diagram written
\* by write_mermaid show the rolling_window, sg_window and sg_poly passed.
C19_FilterLabelsShowArguments ==
    MermaidReturned =>
        LET a    == ret[Len(ret)].args
            text == Written("mermaid_instance_epica.mermaid")
        IN  /\ HasLine(text, <<"MEDIAN([\"RollingMedianFilter w",
                               ToString(a.rolling_window), "\"])">>)
            /\ HasLine(text, <<"SG([\"SavitzkyGolayFilter w",
                               ToString(a.sg_window), " p",
                               ToString(a.sg_poly), "\"])">>)

\* the three file names
DiagramNames ==
    {"mermaid_taxonomy.mermaid", "mermaid_instance_epica.mermaid",
     "mermaid_instance_sisal.mermaid"}

\* the step is a call of write_mermaid that returned
MermaidStep ==
    /\ Len(ret') = Len(ret) + 1
    /\ ret'[Len(ret')].op = "write_mermaid"
    /\ ret'[Len(ret')].raised = ""

\* C20: a call of write_mermaid that returns has made output_dir if it was
\* missing, has written the three diagram files into it and no other file,
\* replacing what they held, and returns a mapping with exactly the three
\* file names, each mapped to output_dir joined with the name; a second call
\* with the same arguments leaves the files as they are.
C20_ThreeFilesAndTheirPaths ==
    [][MermaidStep =>
        LET call == ret'[Len(ret')]
            a    == call.args
        IN  /\ call.outdir \in fs'.dirs
            /\ DOMAIN call.paths = DiagramNames
            /\ \A name \in DiagramNames : call.paths[name] = call.outdir \o <<name>>
            /\ DOMAIN fs'.files
                 = (DOMAIN fs.files) \cup {call.outdir \o <<name>> : name \in DiagramNames}
            /\ \A p \in DOMAIN fs.files :
                  p \notin {call.outdir \o <<name>> : name \in DiagramNames}
                      => fs'.files[p] = fs.files[p]
            /\ fs'.files[call.outdir \o <<"mermaid_taxonomy.mermaid">>]
                 = encode(MERMAID_TAXONOMY)
            /\ fs'.files[call.outdir \o <<"mermaid_instance_epica.mermaid">>]
                 = encode(_mermaid_instance_epica(a.rolling_window, a.sg_window, a.sg_poly))
            /\ fs'.files[call.outdir \o <<"mermaid_instance_sisal.mermaid">>]
                 = encode(_mermaid_instance_sisal(a.n_sisal_sites))
            /\ (\E i \in 1..Len(ret) :
                   /\ ret[i].outdir = call.outdir
                   /\ ret[i].args = a
                   /\ ret[i].raised = ""
                   /\ \A j \in (i + 1)..Len(ret) : ret[j].outdir # call.outdir)
                 => fs' = fs]_vars

\* C20 witness: write_mermaid was called twice with the default arguments on
\* "out", which held the ontology file and a longer SISAL diagram; the
\* directory now holds the ontology file and the three diagrams
C20_Witness ==
    /\ Len(ret) = 2
    /\ ret[1].op = "write_mermaid" /\ ret[2].op = "write_mermaid"
    /\ ret[1].outdir = <<"out">> /\ ret[2].outdir = <<"out">>
    /\ ret[1].args = ret[2].args
    /\ ret[1].args.n_sisal_sites = DefaultSisalSites
    /\ <<"out", "mermaid_instance_sisal.mermaid">> \in DOMAIN ret[1].old
    /\ ret[1].old[<<"out", "mermaid_instance_sisal.mermaid">>]
         > Len(_mermaid_instance_sisal(DefaultSisalSites))
    /\ DOMAIN ret[2].paths = DiagramNames
    /\ ret[2].paths["mermaid_taxonomy.mermaid"] = <<"out", "mermaid_taxonomy.mermaid">>
    /\ DOMAIN fs.files
         = {<<"out", "geo_lod_core.ttl">>} \cup {<<"out", name>> : name \in DiagramNames}
    /\ fs.files[<<"out", "mermaid_instance_sisal.mermaid">>]
         = encode(_mermaid_instance_sisal(DefaultSisalSites))

\* the calls of write_mermaid that have returned
MermaidCalls ==
    {i \in 1..Len(ret) : ret[i].op = "write_mermaid" /\ ret[i].raised = ""}

\* two argument records differ in every one of the four parameters
DifferEverywhere(a, b) ==
    /\ a.rolling_window # b.rolling_window
    /\ a.sg_window # b.sg_window
    /\ a.sg_poly # b.sg_poly
    /\ a.n_sisal_sites # b.n_sisal_sites

\* C21: the taxonomy diagram does not depend on the parameters: whatever
\* rolling_window, sg_window, sg_poly and n_sisal_sites two calls of
\* write_mermaid were given, the content they left in
\* mermaid_taxonomy.mermaid is the same.
C21_TaxonomyParameterFree ==
    \A i \in MermaidCalls : \A j \in MermaidCalls :
        /\ fs.files[ret[i].paths["mermaid_taxonomy.mermaid"]]
             = fs.files[ret[j].paths["mermaid_taxonomy.mermaid"]]
        /\ read_text(fs, ret[i].paths["mermaid_taxonomy.mermaid"])
             = read_text(fs, ret[j].paths["mermaid_taxonomy.mermaid"])

\* C21 witness: two calls whose arguments differ in all four parameters have
\* written the taxonomy into two directories, and the two files are equal
C21_Witness ==
    /\ Len(ret) = 2
    /\ MermaidCalls = {1, 2}
    /\ DifferEverywhere(ret[1].args, ret[2].args)
    /\ ret[1].outdir # ret[2].outdir
    /\ fs.files[<<"out", "mermaid_taxonomy.mermaid">>]
         = fs.files[<<"out", "ontology", "mermaid_taxonomy.mermaid">>]
    /\ Len(fs.files[<<"out", "mermaid_taxonomy.mermaid">>]) = Len(MERMAID_TAXONOMY)

----------------------------------------------------------------------------
(* The frame of add_feature_collection *)

\* the predicates that give a resource its type, its label or its geometry
DescribingPredicates == {RDF_type, RDFS_label, GEO("hasGeometry"), GEO("asWKT")}

\* the triples the step adds are triples of the collection: its type, its
\* label, its membership links
OnlyCollectionTriples(call) ==
    /\ \A t \in g' \ g :
          /\ t[1] = call.subject
          /\ t[2] \in {RDF_type, RDFS_label, RDFS_member}
    /\ g \subseteq g'

\* every member of the call, in the graph or not, is linked
EveryMemberLinked(call) ==
    \A m \in Range(call.members) : <<call.subject, RDFS_member, m>> \in g'

\* C28 (as claimed): add_feature_collection adds only triples whose subject
\* is the collection URI: no type, label or geometry triple for any member;
\* it does not check that a member is a Site of the graph, and a member the
\* graph does not hold gets its membership triple all the same.
C28_NothingAboutAnyMember ==
    [][CollectionStep =>
        LET call == log'[Len(log')]
        IN  /\ OnlyCollectionTriples(call)
            /\ \A m \in Range(call.members) : \A t \in g' \ g :
                  ~(t[1] = m /\ t[2] \in DescribingPredicates)
            /\ EveryMemberLinked(call)]_vars

\* C28 (amended): add_feature_collection adds only triples whose subject is
\* the collection URI: no type, label or geometry triple for any member other
\* than the collection itself; it does not check that a member is a Site of
\* the graph, and a member the graph does not hold gets its membership triple
\* all the same.
C28_NothingAboutOtherMembers ==
    [][CollectionStep =>
        LET call == log'[Len(log')]
        IN  /\ OnlyCollectionTriples(call)
            /\ \A m \in Range(call.members) \ {call.subject} :
                  {t \in g' : t[1] = m} = {t \in g : t[1] = m}
            /\ EveryMemberLinked(call)]_vars

\* C28 witness: the collection was declared with a member the graph describes
\* and a member it does not; both are linked and the absent one is still not
\* described
C28_Witness ==
    /\ Len(log) = 2
    /\ log[1].op = "add_geo_site"
    /\ log[1].subject = GEOLOD("Cave_site_0001")
    /\ LastCall.op = "add_feature_collection"
    /\ LastCall.subject = GEOLOD("SISAL_Cave_Collection")
    /\ LastCall.members = <<GEOLOD("Cave_site_0001"), GEOLOD("Cave_site_0002")>>
    /\ <<LastCall.subject, RDFS_member, GEOLOD("Cave_site_0002")>> \in g
    /\ \A t \in g : t[1] # GEOLOD("Cave_site_0002")
    /\ Objects(g, GEOLOD("Cave_site_0001"), RDF_type)
         = {GEO("Feature"), CRM("E53_Place"), CRM("E27_Site")}

----------------------------------------------------------------------------
(* Idempotence of _ensure_crs *)

\* C29: _ensure_crs is idempotent on every input string, the empty string,
\* whitespace-only strings and strings with leading or trailing whitespace
\* included: applying it to its own result gives that result again.
C29_IdempotentOnEveryInput ==
    \A i \in 2..Len(crs.r) : crs.r[i] = crs.r[1]

----------------------------------------------------------------------------
(* main.py: the orchestrator of the EPICA and the SISAL pipeline.           *)
(* A run is the sequence of steps of main(): the two scripts are looked    *)
(* for, the EPICA step, the SISAL step, the summary, the exit.  What a      *)
(* script does when it is loaded and its main() is called is the           *)
(* environment's choice, as is the removal of a script during the run.     *)

\* sys.exit(n) of a script: n in 0..MaxExitCode
MaxExitCode == 2

\* EPICA_SCRIPT and SISAL_SCRIPT
Scripts == {"EPICA", "SISAL"}

\* args of parser.parse_args(): each flag was given or not
Flags == [epica_only : BOOLEAN, sisal_only : BOOLEAN,
          no_plots : BOOLEAN, no_rdf : BOOLEAN]

\* how exec_module(module) followed by module.main() ends: main() returns,
\* the module has no main, or one of the two raises
Behaviours == {"ok", "no main", "Exception", "SystemExit", "KeyboardInterrupt"}

\* what main() of a script leaves when it returns: plot_epica_from_tab.py
\* saves its plots, whatever the command line was; plot_sisal_from_csv.py
\* may leave plots, RDF, both or neither
main_products(script) ==
    IF script = "EPICA" THEN {{<<"EPICA", "plots">>}}
    ELSE SUBSET {<<"SISAL", "plots">>, <<"SISAL", "rdf">>}

\* a variant whose except clause lets an Exception of the script through
run_script_uncaught(script_exists, behaviour, skip) ==
    IF skip THEN [ran |-> FALSE, result |-> TRUE, raised |-> ""]
    ELSE IF ~script_exists THEN [ran |-> FALSE, result |-> FALSE, raised |-> ""]
    ELSE IF behaviour = "ok" THEN [ran |-> TRUE, result |-> TRUE, raised |-> ""]
    ELSE IF behaviour = "no main"
         THEN [ran |-> TRUE, result |-> FALSE, raised |-> ""]
    ELSE [ran |-> TRUE, result |-> FALSE, raised |-> behaviour]

\* run_script(script_path, description, skip): whether the script was loaded,
\* the value returned, and the exception that left the function, if any;
\* `except Exception` catches neither SystemExit nor KeyboardInterrupt
run_script(script_exists, behaviour, skip) ==
    IF skip THEN [ran |-> FALSE, result |-> TRUE, raised |-> ""]
    ELSE IF ~script_exists THEN [ran |-> FALSE, result |-> FALSE, raised |-> ""]
    ELSE IF behaviour = "ok" THEN [ran |-> TRUE, result |-> TRUE, raised |-> ""]
    ELSE IF behaviour \in {"no main", "Exception"}
         THEN [ran |-> TRUE, result |-> FALSE, raised |-> ""]
    ELSE [ran |-> TRUE, result |-> FALSE, raised |-> behaviour]

\* a variant that takes a step whenever its script was found
step_taken_found(script, args, script_found) == script_found

\* the conditions of the two steps:
\* `not args.sisal_only and epica_exists`, `not args.epica_only and sisal_exists`
step_taken(script, args, script_found) ==
    IF script = "EPICA" THEN ~args.sisal_only /\ script_found
    ELSE ~args.epica_only /\ script_found

\* the status main() gives to sys.exit
exit_status(args, epica_success, sisal_success) ==
    IF \/ ~args.epica_only /\ ~epica_success
       \/ ~args.sisal_only /\ ~sisal_success
    THEN 1 ELSE 0

\* status of a process that has not ended
Running == -1

InitOrch ==
    /\ GraphIdle
    /\ pair = PairIdle
    /\ fac = FacIdle
    /\ fs = FsIdle
    /\ ret = <<>>
    /\ wr = WrIdle
    /\ \E args \in Flags, exists \in [Scripts -> BOOLEAN],
          behaves \in [Scripts -> Behaviours] :
          orch = [pc |-> "check", step |-> "EPICA", args |-> args,
                  exists |-> exists, behaves |-> behaves,
                  found |-> [s \in Scripts |-> FALSE],
                  success |-> [s \in Scripts |-> FALSE],
                  events |-> <<>>, made |-> {},
                  uncaught |-> "", status |-> Running]

\* after a step: the SISAL step follows the EPICA step, the summary follows
\* the SISAL step
Advance(o) ==
    IF o.step = "EPICA" THEN [o EXCEPT !.pc = "call", !.step = "SISAL"]
    ELSE [o EXCEPT !.pc = "summary"]

\* epica_exists and sisal_exists are set; with neither script main() exits
CheckScripts ==
    /\ orch.pc = "check"
    /\ orch' = IF \A s \in Scripts : ~orch.exists[s]
               THEN [orch EXCEPT !.found = orch.exists, !.pc = "done", !.status = 1]
               ELSE [orch EXCEPT !.found = orch.exists, !.pc = "call"]
    /\ UNCHANGED <<pt, crs, g, log, pair, fac, fs, ret, wr>>

\* the if of a step and, when it is taken, run_script up to the point where
\* the script is loaded
CallRunScript ==
    /\ orch.pc = "call"
    /\ LET s == orch.step
       IN  orch' =
             IF ~step_taken(s, orch.args, orch.found[s]) THEN Advance(orch)
             ELSE IF run_script(orch.exists[s], orch.behaves[s], FALSE).ran
             THEN [orch EXCEPT !.pc = "in",
                               !.events = Append(@, <<"start", s>>)]
             ELSE Advance([orch EXCEPT
                      !.success[s] = run_script(orch.exists[s], orch.behaves[s],
                                                FALSE).result,
                      !.events = Append(@, <<"not found", s>>)])
    /\ UNCHANGED <<pt, crs, g, log, pair, fac, fs, ret, wr>>

\* the script ends: run_script returns, or an exception it does not catch
\* leaves main() and ends the process
ScriptEnds ==
    /\ orch.pc = "in"
    /\ LET s   == orch.step
           out == run_script(TRUE, orch.behaves[s], FALSE)
       IN  IF out.raised # ""
           THEN \E code \in 0..MaxExitCode :
                  /\ out.raised # "SystemExit" => code # 0
                  /\ orch' = [orch EXCEPT !.pc = "done", !.uncaught = out.raised,
                                          !.status = code]
           ELSE \E products \in main_products(s) :
                  orch' = Advance([orch EXCEPT
                      !.success[s] = out.result,
                      !.events = Append(@, <<"end", s>>),
                      !.made = IF out.result THEN @ \cup products ELSE @])
    /\ UNCHANGED <<pt, crs, g, log, pair, fac, fs, ret, wr>>

\* print_summary(epica_success, sisal_success, start_time)
PrintSummary ==
    /\ orch.pc = "summary"
    /\ orch' = [orch EXCEPT !.pc = "exit", !.events = Append(@, <<"summary", "">>)]
    /\ UNCHANGED <<pt, crs, g, log, pair, fac, fs, ret, wr>>

\* the exit code
SysExit ==
    /\ orch.pc = "exit"
    /\ orch' = [orch EXCEPT !.pc = "done",
                  !.status = exit_status(orch.args, orch.success["EPICA"],
                                         orch.success["SISAL"])]
    /\ UNCHANGED <<pt, crs, g, log, pair, fac, fs, ret, wr>>

\* a script found in the preparation is removed before its step
Unlink(s) ==
    /\ orch.pc = "call"
    /\ orch.exists[s]
    /\ orch' = [orch EXCEPT !.exists[s] = FALSE]
    /\ UNCHANGED <<pt, crs, g, log, pair, fac, fs, ret, wr>>

NextOrch ==
    \/ CheckScripts
    \/ CallRunScript
    \/ ScriptEnds
    \/ PrintSummary
    \/ SysExit
    \/ \E s \in Scripts : Unlink(s)

SpecOrch == InitOrch /\ [][NextOrch]_vars

----------------------------------------------------------------------------
(* Claims about the orchestrator *)

\* the script was loaded by run_script
Started(s) == \E i \in 1..Len(orch.events) : orch.events[i] = <<"start", s>>

\* run_script was called for the script and did not find it
Vanished(s) == \E i \in 1..Len(orch.events) : orch.events[i] = <<"not found", s>>

\* main() has gone through both steps
StepsOver == orch.pc \in {"summary", "exit", "done"} /\ orch.uncaught = ""
                /\ \E s \in Scripts : orch.found[s]

C25_FlagsLimitProducts ==
    /\ orch.args.no_plots => <<"EPICA", "plots">> \notin orch.made
    /\ orch.args.no_rdf => <<"EPICA", "rdf">> \notin orch.made

\* the pipeline is selected by the flags
Selected(s) == IF s = "EPICA" THEN ~orch.args.sisal_only ELSE ~orch.args.epica_only

\* C26: main() exits with status 0 exactly when every pipeline selected by
\* the flags (EPICA unless --sisal-only, SISAL unless --epica-only) ran and
\* completed successfully, and with status 1 otherwise.
C26_ExitZeroIffSelectedSucceeded ==
    (orch.pc = "done" /\ orch.uncaught = "") =>
        /\ orch.status \in {0, 1}
        /\ orch.status = 0 <=>
             \A s \in Scripts : Selected(s) => Started(s) /\ orch.success[s]

\* the EPICA step and the SISAL step never overlap, the EPICA step is the
\* first; when the EPICA script raised one of the exceptions, run_script
\* returned False and the SISAL step was taken, and, unless the SISAL script
\* ended the process, the summary came after both steps and the status is 1
EpicaRaisedAndTheRunWentOn(exceptions) ==
    /\ \A i \in 1..Len(orch.events) :
          (orch.events[i] = <<"start", "SISAL">> /\ Started("EPICA")) =>
              \E j \in 1..(i - 1) : orch.events[j] = <<"end", "EPICA">>
    /\ ( /\ Started("EPICA")
         /\ orch.behaves["EPICA"] \in exceptions
         /\ ~(orch.pc = "in" /\ orch.step = "EPICA") ) =>
          /\ \E j \in 1..Len(orch.events) : orch.events[j] = <<"end", "EPICA">>
          /\ ~orch.success["EPICA"]
          /\ (orch.step = "SISAL" /\ orch.pc # "call"
                /\ step_taken("SISAL", orch.args, orch.found["SISAL"])
                /\ ~Vanished("SISAL")) => Started("SISAL")
          /\ (orch.pc = "done" /\ ~(Started("SISAL") /\ orch.uncaught # "")) =>
                /\ orch.events[Len(orch.events)] = <<"summary", "">>
                /\ orch.status = 1

----------------------------------------------------------------------------
(* The two writers on a disk where a directory or a file cannot be written *)

\* the files the two writers write
OutputNames ==
    <<"geo_lod_core.ttl", "mermaid_taxonomy.mermaid",
      "mermaid_instance_epica.mermaid", "mermaid_instance_sisal.mermaid">>

\* the disk before the first call: "out" exists and is empty, or a file
\* stands where "out" should be, or a directory stands in "out" where one of
\* the output files should be, with or without a taxonomy diagram of an
\* earlier run
FailDisks ==
    {[dirs |-> {<<>>, <<"out">>}, files |-> NoFiles],
     [dirs |-> {<<>>}, files |-> Put(NoFiles, <<"out">>, <<StaleLine>>)]}
    \cup {[dirs |-> {<<>>, <<"out">>, join(<<"out">>, OutputNames[b])},
           files |-> old] :
            b \in 1..Len(OutputNames),
            old \in {NoFiles,
                     Put(NoFiles, join(<<"out">>, "mermaid_instance_sisal.mermaid"),
                         <<StaleLine>>)}}

InitFail ==
    /\ GraphIdle
    /\ pair = PairIdle
    /\ fac = FacIdle
    /\ fs \in {F \in FailDisks : \A p \in DOMAIN F.files : p \notin F.dirs}
    /\ ret = <<>>
    /\ wr = WrIdle
    /\ orch = OrchIdle

NextFail == CallWriteGeoLodCore \/ CallWriteMermaid

SpecFail == InitFail /\ [][NextFail]_vars

\* this step is a call of one of the two writers
WriterStep == Len(ret') = Len(ret) + 1

\* the files a call writes, in the order in which it writes them
ItemsOf(r) ==
    IF r.op = "write_geo_lod_core"
    THEN << <<"geo_lod_core.ttl", GEO_LOD_CORE_TTL>> >>
    ELSE diagrams(r.args.rolling_window, r.args.sg_window, r.args.sg_poly,
                  r.args.n_sisal_sites)

\* the first of the items that cannot be opened on disk F, 0 if all can
FirstBlocked(F, outdir, items) ==
    LET blocked == {i \in 1..Len(items) :
                      open_raises(F, join(outdir, items[i][1])) # ""}
    IN  IF blocked = {} THEN 0
        ELSE CHOOSE i \in blocked : \A j \in blocked : i <= j

----------------------------------------------------------------------------
(* One export: a site, a collection, the ontology document, the diagrams *)

OutputSite ==
    /\ log = <<>> /\ ret = <<>>
    /\ \E site_uri \in SiteUris, geom_uri \in GeomUris,
          extra_types \in {<<>>} \cup {<<t>> : t \in TypeUris} :
            AddGeoSite(site_uri, geom_uri, <<"A">>, DomeC, South, extra_types)

OutputCollection ==
    /\ Len(log) = 1 /\ ret = <<>>
    /\ \E collection_uri \in CollectionUris,
          members \in {<<>>} \cup {<<m>> : m \in MemberUris} :
            AddFeatureCollection(collection_uri, <<"B">>, members)

OutputCore == ret = <<>> /\ CallWriteGeoLodCore

OutputMermaid == Len(ret) = 1 /\ CallWriteMermaid

NextOutput == OutputSite \/ OutputCollection \/ OutputCore \/ OutputMermaid

SpecOutput == InitGraph /\ [][NextOutput]_vars

----------------------------------------------------------------------------
(* Prefixes *)

\* the prefixes of the prefixed names of a text (the token before a ":")
PrefixesUsed(text) ==
    UNION {{text[i][k - 1] : k \in {j \in 2..Len(text[i]) : text[i][j] = ":"}} :
             i \in 1..Len(text)}

\* the @prefix declarations of a Turtle text: prefix and namespace URI
PrefixesDeclared(text) ==
    {<<text[i][2], text[i][5]>> :
        i \in {j \in 1..Len(text) : Len(text[j]) = 6 /\ text[j][1] = "@prefix "}}

\* the namespace URIs of NS
NamespaceUris == {NS[p] : p \in DOMAIN NS}

\* C22: every prefix used in an output has a binding in NS: every prefix
\* declared or used in the ontology document and every prefix of a prefixed
\* term of the three diagrams is a key of NS, every @prefix URI of the
\* document is the URI NS gives, and the predicates and classes the
\* builders write are in namespaces of NS.
C22_EveryPrefixBound ==
    /\ \A p \in DOMAIN fs.files :
          /\ PrefixesUsed(read_text(fs, p)) \subseteq DOMAIN NS
          /\ \A d \in PrefixesDeclared(read_text(fs, p)) :
                d[1] \in DOMAIN NS /\ NS[d[1]] = d[2]
    /\ \A t \in g :
          /\ t[2].ns \in NamespaceUris
          /\ t[2] = RDF_type => t[3].ns \in NamespaceUris

\* C22 witness: the graph holds a site and its collection, the ontology
\* document with its sixteen declarations and the three diagrams are on disk
C22_Witness ==
    /\ Len(log) = 2
    /\ \E t \in g : t[2] = RDFS_member
    /\ Len(ret) = 2
    /\ ret[1].outdir = <<"out">> /\ ret[2].outdir = <<"out">>
    /\ DOMAIN fs.files = {join(<<"out">>, OutputNames[i]) : i \in 1..Len(OutputNames)}
    /\ Cardinality(PrefixesDeclared(read_text(fs, <<"out", "geo_lod_core.ttl">>))) = 16
    /\ "dcat" \in PrefixesUsed(read_text(fs, <<"out", "mermaid_instance_epica.mermaid">>))

----------------------------------------------------------------------------
(* The taxonomy diagram and the subclass axioms of the ontology document *)

\* the node lines of a flowchart: identifier, "[\"", label, "\"]"
NodeLines(tax) ==
    {i \in 1..Len(tax) :
        /\ \E k \in 2..Len(tax[i]) : tax[i][k] = "[\""
        /\ \A k \in 1..Len(tax[i]) : tax[i][k] # "subgraph "}

\* the identifier and the label of a node line
NodeId(line) == line[(CHOOSE k \in 2..Len(line) : line[k] = "[\"") - 1]
NodeLabel(line) ==
    SubSeq(line, (CHOOSE k \in 2..Len(line) : line[k] = "[\"") + 1, Len(line) - 1)

\* the lines of the top-level subgraph with the given identifier, up to its end
SubgraphLines(tax, id) ==
    LET start == CHOOSE i \in 1..Len(tax) :
                    Len(tax[i]) >= 2 /\ tax[i][1] = "subgraph " /\ tax[i][2] = id
        stop  == CHOOSE j \in (start + 1)..Len(tax) :
                    /\ tax[j] = <<"end">>
                    /\ \A k \in (start + 1)..(j - 1) : tax[k] # <<"end">>
    IN  (start + 1)..(stop - 1)

\* the classes the diagram shows, by node identifier: an external class is
\* labelled with its prefixed name, a core class with its local name
ExternalNodes(tax) ==
    {<<NodeId(tax[i]), <<NodeLabel(tax[i])[1], NodeLabel(tax[i])[3]>>>> :
        i \in {j \in NodeLines(tax) \cap SubgraphLines(tax, "EXT") :
                 Len(NodeLabel(tax[j])) = 3 /\ NodeLabel(tax[j])[2] = ":"}}

CoreNodes(tax) ==
    {<<NodeId(tax[i]), <<"geolod", NodeLabel(tax[i])[1]>>>> :
        i \in {j \in NodeLines(tax) \cap SubgraphLines(tax, "CORE") :
                 Len(NodeLabel(tax[j])) = 1}}

\* the dashed edges X -.-> Y
DashedEdges(tax) ==
    {<<tax[i][1], tax[i][3]>> :
        i \in {j \in 1..Len(tax) : Len(tax[j]) = 3 /\ tax[j][2] = " -.-> "}}

\* the rdfs:subClassOf statements of a Turtle text: the subject is the
\* prefixed name alone on the nearest line above, the object follows the
\* predicate
SubClassOf(ttl) ==
    LET stated   == {i \in 1..Len(ttl) :
                       /\ Len(ttl[i]) >= 8
                       /\ SubSeq(ttl[i], 2, 4) = <<"rdfs", ":", "subClassOf">>
                       /\ ttl[i][7] = ":"}
        heads    == {i \in 1..Len(ttl) : Len(ttl[i]) = 3 /\ ttl[i][2] = ":"}
        above(i) == CHOOSE h \in heads :
                       h < i /\ \A h2 \in heads : h2 < i => h2 <= h
    IN  {<< <<ttl[above(i)][1], ttl[above(i)][3]>>, <<ttl[i][6], ttl[i][8]>> >> :
            i \in stated}

\* the two texts agree on the core classes
Agree(tax, ttl) ==
    /\ \A x \in ExternalNodes(tax), y \in CoreNodes(tax) :
          <<x[1], y[1]>> \in DashedEdges(tax) => <<y[2], x[2]>> \in SubClassOf(ttl)
    /\ \A x \in ExternalNodes(tax), y \in CoreNodes(tax) :
          <<y[2], x[2]>> \in SubClassOf(ttl) => <<x[1], y[1]>> \in DashedEdges(tax)

\* C30: the taxonomy diagram agrees with the ontology on the core classes:
\* for every dashed edge X -.-> Y from an external class X to a core class Y
\* the ontology document states Y rdfs:subClassOf X, and for every
\* rdfs:subClassOf of the document from a core class shown in the diagram to
\* an external class shown in it the diagram has the edge.
C30_TaxonomyAgreesWithOntology ==
    \A outdir \in OutDirs :
        ( /\ join(outdir, "geo_lod_core.ttl") \in DOMAIN fs.files
          /\ join(outdir, "mermaid_taxonomy.mermaid") \in DOMAIN fs.files ) =>
            Agree(read_text(fs, join(outdir, "mermaid_taxonomy.mermaid")),
                  read_text(fs, join(outdir, "geo_lod_core.ttl")))

\* the dashed edges between an external and a core class without the axiom
EdgesWithoutAxiom(tax, ttl) ==
    {<<x[2], y[2]>> : <<x, y>> \in
        {<<a, b>> \in ExternalNodes(tax) \X CoreNodes(tax) :
            <<a[1], b[1]>> \in DashedEdges(tax) /\ <<b[2], a[2]>> \notin SubClassOf(ttl)}}

\* the axioms between classes shown without the edge
AxiomsWithoutEdge(tax, ttl) ==
    {<<y[2], x[2]>> : <<x, y>> \in
        {<<a, b>> \in ExternalNodes(tax) \X CoreNodes(tax) :
            <<b[2], a[2]>> \in SubClassOf(ttl) /\ <<a[1], b[1]>> \notin DashedEdges(tax)}}

\* where the two constants part: the diagram derives MeasurementType from
\* S9_Property_Type and Chronology from S6_Data_Evaluation, the document
\* derives MeasurementType from S6_Data_Evaluation and Chronology from nothing
C30_WhereTheyPart ==
    /\ EdgesWithoutAxiom(MERMAID_TAXONOMY, GEO_LOD_CORE_TTL)
         = { << <<"crmsci", "S9_Property_Type">>, <<"geolod", "MeasurementType">> >>,
             << <<"crmsci", "S6_Data_Evaluation">>, <<"geolod", "Chronology">> >> }
    /\ AxiomsWithoutEdge(MERMAID_TAXONOMY, GEO_LOD_CORE_TTL)
         = { << <<"geolod", "MeasurementType">>, <<"crmsci", "S6_Data_Evaluation">> >> }
    /\ Cardinality(ExternalNodes(MERMAID_TAXONOMY)) = 13
    /\ Cardinality(CoreNodes(MERMAID_TAXONOMY)) = 8
    /\ Cardinality(SubClassOf(GEO_LOD_CORE_TTL)) = 14

====
